---- MODULE Spec2Model ----
(***************************************************************************)
(* A model of the release-notes scraper of src/changelog.py: the           *)
(* classifier, the fetch/fallback controller of ReleaseNotesScraper.scrape,*)
(* the per-path extractors with their date and category filters, and the   *)
(* loop of main() that scrapes the sources of one run.                     *)
(*                                                                         *)
(* Conventions.  A Python value that may be None is a sequence of length   *)
(* 0 (None) or 1 (the value).  A text is a sequence of tokens (words and   *)
(* punctuation marks); `kw in text` is "kw is a contiguous run of tokens   *)
(* of text".  A datetime is a record [t, aware]: t counts ticks of the     *)
(* wall clock, aware says whether the value carries a tzinfo.              *)
(***************************************************************************)
EXTENDS Integers, Sequences, FiniteSets, TLC

VARIABLES
    fn_arg,     \* input of the pure function under check (pure-function specifications)
    fn_ret,     \* its result, <<>> before the call
    args,       \* the parsed command line: days, months, start_date, end_date, category
    urls,       \* main: the sources of the run, in order (url, service_name)
    idx,        \* main: index of the source being scraped
    all_releases, \* main: the combined result
    pc,         \* position of the program
    scraper,    \* the fields of the current ReleaseNotesScraper
    reqs,       \* the GETs issued by the current scrape call, in order
    found,      \* the groups the current scrape extracted, before the filters
    result,     \* what the current scrape call returned
    driver      \* the browser session of the Medium scraper: "none", "open", "quit"

vars == <<fn_arg, fn_ret, args, urls, idx, all_releases, pc, scraper, reqs, found, result,
          driver>>

None == <<>>
Some(x) == <<x>>
IsNone(o) == o = <<>>
Val(o) == o[1]

(***************************************************************************)
(* Texts                                                                   *)
(***************************************************************************)

\* str.lower() on one token: the capitalised tokens of the vocabulary.
LowerTok(tok) ==
    CASE tok = "Security" -> "security"
      [] tok = "Preview"  -> "preview"
      [] tok = "Breaking" -> "breaking"
      [] tok = "GA"       -> "ga"
      [] tok = "Improvements" -> "improvements"
      [] tok = "Fixes"    -> "fixes"
      [] tok = "Patches"  -> "patches"
      [] OTHER            -> tok

lower(text) == [i \in 1..Len(text) |-> LowerTok(text[i])]

\* Python's `kw in text` for strings.
Contains(text, kw) ==
    \E i \in 1..(Len(text) - Len(kw) + 1) : SubSeq(text, i, i + Len(kw) - 1) = kw

any_keyword(text_lower, keywords) == \E kw \in keywords : Contains(text_lower, kw)

(***************************************************************************)
(* VALID_CATEGORIES and the classifier                                     *)
(***************************************************************************)

VALID_CATEGORIES ==
    {"ga", "public-preview", "breaking", "security", "deprecated", "fixed",
     "issue", "change", "announcement", "libraries", "update"}

\* The keyword lists of _categorize_item, in the order the code tests them.
KW_security == {<<"security">>, <<"vulnerability">>, <<"cve">>, <<"patch">>}
KW_breaking ==
    {<<"breaking", "change">>, <<"breaking", "change", ":">>,
     <<"migration", "required">>, <<"major", "version", "update">>}
KW_preview ==
    {<<"(", "preview", ")">>, <<"public", "preview">>, <<"in", "preview">>,
     <<"preview", ")">>, <<"early", "access">>, <<"beta">>}
KW_ga ==
    {<<"generally", "available">>, <<"general", "availability">>,
     <<"(", "ga", ")">>, <<"is", "now", "ga">>, <<"is", "in", "ga">>,
     <<"in", "general", "availability">>}
KW_deprecated ==
    {<<"deprecated">>, <<"deprecation">>, <<"obsolete">>, <<"removed">>,
     <<"discontinued">>}
KW_fixed == {<<"fixed">>, <<"fix", ":">>, <<"resolved">>, <<"bug">>}
KW_issue == {<<"issue">>, <<"known", "issue">>, <<"workaround">>}
KW_change ==
    {<<"changed", ":">>, <<"migration", "required">>, <<"version", "updates">>}
KW_announcement == {<<"announced">>, <<"announcement">>, <<"introducing">>}
KW_libraries ==
    {<<"library">>, <<"sdk">>, <<"api">>, <<"client", "library">>, <<"framework">>}

\* A mutant of the keyword chain: the breaking keywords are tested before the
\* security keywords.
KeywordCategoryBreakingFirst(text_lower) ==
    IF any_keyword(text_lower, KW_breaking) THEN "breaking"
    ELSE IF any_keyword(text_lower, KW_security) THEN "security"
    ELSE IF any_keyword(text_lower, KW_preview) THEN "public-preview"
    ELSE IF any_keyword(text_lower, KW_ga) THEN "ga"
    ELSE IF any_keyword(text_lower, KW_deprecated) THEN "deprecated"
    ELSE IF any_keyword(text_lower, KW_fixed) THEN "fixed"
    ELSE IF any_keyword(text_lower, KW_issue) THEN "issue"
    ELSE IF any_keyword(text_lower, KW_change) THEN "change"
    ELSE IF any_keyword(text_lower, KW_announcement) THEN "announcement"
    ELSE IF any_keyword(text_lower, KW_libraries) THEN "libraries"
    ELSE "update"

\* A mutant of the keyword chain: an unmatched text is labelled "feature",
\* which is no member of VALID_CATEGORIES.
KeywordCategoryFeatureDefault(text_lower) ==
    IF any_keyword(text_lower, KW_security) THEN "security"
    ELSE IF any_keyword(text_lower, KW_breaking) THEN "breaking"
    ELSE IF any_keyword(text_lower, KW_preview) THEN "public-preview"
    ELSE IF any_keyword(text_lower, KW_ga) THEN "ga"
    ELSE IF any_keyword(text_lower, KW_deprecated) THEN "deprecated"
    ELSE IF any_keyword(text_lower, KW_fixed) THEN "fixed"
    ELSE IF any_keyword(text_lower, KW_issue) THEN "issue"
    ELSE IF any_keyword(text_lower, KW_change) THEN "change"
    ELSE IF any_keyword(text_lower, KW_announcement) THEN "announcement"
    ELSE IF any_keyword(text_lower, KW_libraries) THEN "libraries"
    ELSE "feature"

\* _categorize_item, the text analysis (lines 529-574).
KeywordCategory(text_lower) ==
    IF any_keyword(text_lower, KW_security) THEN "security"
    ELSE IF any_keyword(text_lower, KW_breaking) THEN "breaking"
    ELSE IF any_keyword(text_lower, KW_preview) THEN "public-preview"
    ELSE IF any_keyword(text_lower, KW_ga) THEN "ga"
    ELSE IF any_keyword(text_lower, KW_deprecated) THEN "deprecated"
    ELSE IF any_keyword(text_lower, KW_fixed) THEN "fixed"
    ELSE IF any_keyword(text_lower, KW_issue) THEN "issue"
    ELSE IF any_keyword(text_lower, KW_change) THEN "change"
    ELSE IF any_keyword(text_lower, KW_announcement) THEN "announcement"
    ELSE IF any_keyword(text_lower, KW_libraries) THEN "libraries"
    ELSE "update"

HINT_CLASSES ==
    {"release-feature", "release-changed", "release-announcement",
     "release-breaking", "release-issue"}

\* The hint markers that are substrings of a class name.  The class names of
\* the model: the five hint classes, "release-featured" (which holds
\* "release-feature"), "note" and "" (no class).
ClassParts(class) ==
    CASE class \in HINT_CLASSES      -> {class}
      [] class = "release-featured" -> {"release-feature"}
      [] OTHER                      -> {}

\* `marker in class_str`, class_str the element's classes joined by spaces
\* (an element of the model has one class, or none).
ClassStrHas(class, marker) == marker \in ClassParts(class)

\* A mutant of the hint table: release-feature is "ga" whatever the text.
HintCategoryFeatureAlwaysGa(element) ==
    IF ClassStrHas(element.class, "release-feature") THEN Some("ga")
    ELSE IF ClassStrHas(element.class, "release-changed") THEN Some("change")
    ELSE IF ClassStrHas(element.class, "release-announcement") THEN Some("announcement")
    ELSE IF ClassStrHas(element.class, "release-breaking") THEN Some("breaking")
    ELSE IF ClassStrHas(element.class, "release-issue") THEN Some("issue")
    ELSE None

\* _categorize_item, the element's class (lines 502-520): the category the
\* hint gives, None when the element has no hint class.
HintCategory(element) ==
    IF ClassStrHas(element.class, "release-feature")
    THEN IF Contains(element.text, <<"(", "Preview", ")">>)
            \/ Contains(element.text, <<"(", "preview", ")">>)
         THEN Some("public-preview")
         ELSE Some("ga")
    ELSE IF ClassStrHas(element.class, "release-changed") THEN Some("change")
    ELSE IF ClassStrHas(element.class, "release-announcement") THEN Some("announcement")
    ELSE IF ClassStrHas(element.class, "release-breaking") THEN Some("breaking")
    ELSE IF ClassStrHas(element.class, "release-issue") THEN Some("issue")
    ELSE None

\* _categorize_item, lines 500-529 and 574: the hint decides when there is
\* one; with no text the category is "update"; else the text analysis.
CategoryOf(hint, t) ==
    IF ~IsNone(hint) THEN Val(hint)
    ELSE IF t = <<>> THEN "update"
    ELSE KeywordCategory(lower(t))

\* _categorize_item(element=None, text=None).  element: None or
\* Some([class, text, ...]); text: a text, <<>> for None and for ''.
_categorize_item(element, text) ==
    CategoryOf(IF IsNone(element) THEN None ELSE HintCategory(Val(element)),
               IF text = <<>> /\ ~IsNone(element) THEN Val(element).text ELSE text)

(***************************************************************************)
(* Time                                                                    *)
(***************************************************************************)

\* Ticks of the clock in one day, and datetime.now() (held fixed over a run).
TicksPerDay == 2
Now == 801

\* timedelta(days=n)
timedelta_days(n) == n * TicksPerDay

\* dt.replace(hour=0, minute=0, second=0, microsecond=0)
midnight(t) == t - (t % TicksPerDay)

\* dt.replace(hour=23, minute=59, second=59) of a midnight
end_of_day(t) == midnight(t) + TicksPerDay - 1

Naive(t) == [t |-> t, aware |-> FALSE]
Aware(t) == [t |-> t, aware |-> TRUE]

\* `a >= b`, `a <= b` on datetimes raise TypeError when exactly one is aware.
CompareRaises(a, b) == a.aware # b.aware

(***************************************************************************)
(* The source registry (a sample of it) and URL detection                  *)
(***************************************************************************)

U_api_gateway    == "https://cloud.google.com/feeds/api-gateway-release-notes.xml"
U_api_gateway_fb == "https://cloud.google.com/api-gateway/docs/release-notes"
U_cloud_run      == "https://cloud.google.com/feeds/cloud-run-release-notes.xml"
U_cloud_sdk      == "https://cloud.google.com/sdk/docs/release-notes"
U_antigravity    == "https://antigravity.google/changelog"
U_firebase_ios   == "https://firebase.google.com/support/release-notes/ios"
U_workspace_blog == "http://feeds.feedburner.com/GoogleAppsUpdates"
U_blog_containers == "https://cloud.google.com/blog/products/containers-kubernetes"
U_dev_blog       == "https://developers.googleblog.com/"
U_medium_k8s     == "https://medium.com/feed/google-cloud/tagged/kubernetes"
U_medium_html    == "https://medium.com/google-cloud"
U_custom         == "https://example.com/release-notes"
\* URLs that match more than one rule of the detection code.
U_antigravity_feed == "https://antigravity.google/feeds/changelog.xml"
U_blog_feed      == "https://cloud.google.com/blog/rss.xml"
U_dev_on_cloud   == "https://developers.googleblog.com/?ref=cloud.google.com/blog"
U_medium_on_dev  == "https://medium.com/google-cloud?source=developers.googleblog.com"

\* The substrings (and, marked $, suffixes) the detection code looks for that
\* each URL of the sample holds.
UrlParts(url) ==
    CASE url = U_api_gateway    -> {"cloud.google.com", "/feeds/", ".xml$"}
      [] url = U_api_gateway_fb -> {"cloud.google.com"}
      [] url = U_cloud_run      -> {"cloud.google.com", "/feeds/", ".xml$"}
      [] url = U_cloud_sdk      -> {"cloud.google.com"}
      [] url = U_antigravity    -> {"antigravity.google"}
      [] url = U_firebase_ios   -> {"firebase.google.com"}
      [] url = U_workspace_blog -> {"feeds.feedburner.com"}
      [] url = U_blog_containers -> {"cloud.google.com/blog", "cloud.google.com"}
      [] url = U_dev_blog       -> {"developers.googleblog.com"}
      [] url = U_medium_k8s     -> {"medium.com/feed/"}
      [] url = U_medium_html    -> {"medium.com/google-cloud"}
      [] url = U_antigravity_feed -> {"antigravity.google", "/feeds/", ".xml$"}
      [] url = U_blog_feed      -> {"cloud.google.com/blog", "cloud.google.com", ".xml$"}
      [] url = U_dev_on_cloud   -> {"developers.googleblog.com", "cloud.google.com/blog",
                                    "cloud.google.com"}
      [] url = U_medium_on_dev  -> {"medium.com/google-cloud", "developers.googleblog.com"}
      [] OTHER                  -> {}

UrlHas(url, part) == part \in UrlParts(url)

SERVICE_FEEDS ==
    [s \in {"api-gateway", "cloud-run", "cloud-sdk", "antigravity", "firebase-ios",
            "workspace-blog"} |->
        CASE s = "api-gateway"    -> U_api_gateway
          [] s = "cloud-run"      -> U_cloud_run
          [] s = "cloud-sdk"      -> U_cloud_sdk
          [] s = "antigravity"    -> U_antigravity
          [] s = "firebase-ios"   -> U_firebase_ios
          [] s = "workspace-blog" -> U_workspace_blog]

SERVICE_HTML_FALLBACKS ==
    [s \in {"api-gateway", "cloud-sdk", "antigravity"} |->
        CASE s = "api-gateway" -> U_api_gateway_fb
          [] s = "cloud-sdk"   -> U_cloud_sdk
          [] s = "antigravity" -> U_antigravity]

SERVICE_GROUPS ==
    [g \in {"apps", "ai"} |->
        CASE g = "apps" -> <<"api-gateway", "cloud-run">>
          [] g = "ai"   -> <<"antigravity", "cloud-sdk">>]

BLOG_URLS == <<[name |-> "containers", url |-> U_blog_containers],
               [name |-> "dev-blog",   url |-> U_dev_blog],
               [name |-> "medium-k8s", url |-> U_medium_k8s]>>

\* PLATFORM_SELECTORS: the platforms that have a selector profile, with the
\* header tags of each profile.
PLATFORM_SELECTORS ==
    [p \in {"google_cloud", "firebase", "antigravity", "generic"} |->
        CASE p = "google_cloud" -> [date_headers |-> <<"h2", "h3">>]
          [] p = "firebase"     -> [date_headers |-> <<"h2", "h3", "h4">>]
          [] p = "antigravity"  -> [date_headers |-> <<"h2", "h3", "h4", "time">>]
          [] p = "generic"      -> [date_headers |-> <<"h2", "h3", "h4">>]]

_detect_platform(url) ==
    IF UrlHas(url, "cloud.google.com/blog") THEN "cloud_blog"
    ELSE IF UrlHas(url, "developers.googleblog.com") THEN "developers_blog"
    ELSE IF UrlHas(url, "medium.com/feed/") THEN "medium_feed"
    ELSE IF UrlHas(url, "medium.com/google-cloud") THEN "medium_blog"
    ELSE IF UrlHas(url, "cloud.google.com") \/ UrlHas(url, "developers.google.com")
         THEN "google_cloud"
    ELSE IF UrlHas(url, "firebase.google.com") THEN "firebase"
    ELSE IF UrlHas(url, "antigravity.google") THEN "antigravity"
    ELSE "generic"

\* A mutant of _is_xml_url: the antigravity host is not looked at.
IsXmlUrlAnyHost(url) ==
    IF UrlHas(url, "medium.com/feed/") THEN TRUE
    ELSE IF UrlHas(url, "feeds.feedburner.com") \/ UrlHas(url, "feedburner.google.com")
         THEN TRUE
    ELSE UrlHas(url, ".xml$") \/ UrlHas(url, ".atom$") \/ UrlHas(url, "/feeds/")

_is_xml_url(url) ==
    IF UrlHas(url, "antigravity.google") THEN FALSE
    ELSE IF UrlHas(url, "medium.com/feed/") THEN TRUE
    ELSE IF UrlHas(url, "feeds.feedburner.com") \/ UrlHas(url, "feedburner.google.com")
         THEN TRUE
    ELSE UrlHas(url, ".xml$") \/ UrlHas(url, ".atom$") \/ UrlHas(url, "/feeds/")

\* A mutant of _is_antigravity_url: no URL is taken for the script site.
IsAntigravityUrlNever(url) == FALSE

_is_antigravity_url(url) == UrlHas(url, "antigravity.google")

_is_blog_feed(url) ==
    IF UrlHas(url, "medium.com/feed/") THEN TRUE
    ELSE UrlHas(url, "feeds.feedburner.com") \/ UrlHas(url, "feedburner.google.com")

\* A mutant of _get_fallback_url: no service has a fallback.
NoFallbackUrl(service_name) == None

_get_fallback_url(service_name) ==
    IF service_name \in DOMAIN SERVICE_HTML_FALLBACKS
    THEN Some(SERVICE_HTML_FALLBACKS[service_name])
    ELSE None

(***************************************************************************)
(* Exceptions                                                              *)
(***************************************************************************)

\* The exception classes of the model and the class each derives from.
\* "HTTPError", "Timeout" and "ConnectionError" are requests exceptions.
ExcBase(exc) ==
    CASE exc \in {"HTTPError", "Timeout", "ConnectionError"} -> "RequestException"
      [] OTHER -> "Exception"

\* Whether an `except <cls>` clause catches exc.
IsInstance(exc, cls) == cls = "Exception" \/ exc = cls \/ ExcBase(exc) = cls

Ok(v) == [exc |-> "none", val |-> v]
Raise(e) == [exc |-> e, val |-> <<>>]

(***************************************************************************)
(* The two filters                                                         *)
(***************************************************************************)

\* _filter_by_date (lines 1184-1192).  cutoff_date and end_date are naive;
\* the first dated release whose date is aware makes the comparison raise.
_filter_by_date(releases, cutoff_date, end_date) ==
    IF \E i \in 1..Len(releases) :
           ~IsNone(releases[i].date) /\ CompareRaises(Val(releases[i].date), Naive(cutoff_date))
    THEN Raise("TypeError")
    ELSE Ok(SelectSeq(releases, LAMBDA r :
               /\ ~IsNone(r.date)
               /\ Val(r.date).t >= cutoff_date
               /\ Val(r.date).t <= end_date))

\* A mutant of _filter_by_category: a group left without items is kept.
FilterByCategoryKeepEmpty(releases, categories) ==
    IF IsNone(categories) \/ Val(categories) = {} THEN releases
    ELSE [i \in 1..Len(releases) |->
             [releases[i] EXCEPT !.items =
                 SelectSeq(releases[i].items, LAMBDA it : it.category \in Val(categories))]]

\* _filter_by_category (lines 1194-1212).
_filter_by_category(releases, categories) ==
    IF IsNone(categories) \/ Val(categories) = {} THEN releases
    ELSE LET kept == [i \in 1..Len(releases) |->
                        [releases[i] EXCEPT !.items =
                            SelectSeq(releases[i].items,
                                      LAMBDA it : it.category \in Val(categories))]]
         IN  SelectSeq(kept, LAMBDA r : r.items # <<>>)

\* strict_mode = self.days is not None or self.start_date is not None
\* (lines 680, 981, 1088).
strict_mode(self) == ~IsNone(self.days) \/ ~IsNone(self.start_date)

\* The filter loop the three blog scrapers run in place of the two filters
\* (lines 679-696, 981-995, 1087-1105): undated groups pass unless
\* strict_mode; no category filter.
BlogFilter(releases, self) ==
    IF \E i \in 1..Len(releases) :
           ~IsNone(releases[i].date) /\ CompareRaises(Val(releases[i].date), Naive(self.cutoff_date))
    THEN Raise("TypeError")
    ELSE Ok(SelectSeq(releases, LAMBDA r :
               IF ~IsNone(r.date)
               THEN Val(r.date).t >= self.cutoff_date /\ Val(r.date).t <= self.end_date
               ELSE ~strict_mode(self)))

\* The category filter on what the date filter gave.
ThenCategories(dated, self) ==
    IF dated.exc # "none" THEN dated
    ELSE Ok(_filter_by_category(dated.val, self.categories))

\* The date filter, then the category filter, as every non-blog path ends.
BothFilters(releases, self) ==
    ThenCategories(_filter_by_date(releases, self.cutoff_date, self.end_date), self)

(***************************************************************************)
(* Date strings                                                            *)
(***************************************************************************)

\* A date string is a record [kind, t]: the format it is written in and the
\* wall-clock time it shows.  datetime.strptime over the formats of
\* _parse_xml_date (lines 1342-1379): "iso_z" ends in a literal Z and parses
\* naive, "offset" carries a numeric offset and parses aware, "date" is
\* YYYY-MM-DD, "embedded" holds a YYYY-MM-DD the regex digs out, "garbage"
\* matches nothing.
XmlStrptime(ds) ==
    CASE ds.kind = "iso_z"    -> Some(Naive(ds.t))
      [] ds.kind = "offset"   -> Some(Aware(ds.t))
      [] ds.kind = "date"     -> Some(Naive(midnight(ds.t)))
      [] ds.kind = "embedded" -> Some(Naive(midnight(ds.t)))
      [] OTHER                -> None

\* _parse_xml_date (lines 1337-1385): the tzinfo is dropped, the wall-clock
\* fields stay.
_parse_xml_date(ds) ==
    LET parsed == XmlStrptime(ds)
    IN  IF ~IsNone(parsed) /\ Val(parsed).aware THEN Some(Naive(Val(parsed).t))
        ELSE parsed

\* _parse_date (lines 433-452) on the string a date pattern captured: "long"
\* (January 15, 2024), "iso", "slash" (01/15/2024) parse to midnight;
\* "badmatch" is a string pattern 1 captures that no format parses
\* (Version 15, 2024).
_parse_date(ds) ==
    IF ds.kind \in {"long", "iso", "slash"} THEN Some(Naive(midnight(ds.t)))
    ELSE None

\* The index (1, 2, 3) of the first entry of date_patterns that matches a
\* text whose date string is ds, 0 when none does.  The firebase profile has
\* no slash pattern; the third antigravity pattern is another one.
PatternOf(ds, platform) ==
    CASE ds.kind \in {"long", "badmatch"} -> 1
      [] ds.kind = "iso" -> 2
      [] ds.kind = "slash" /\ platform \in {"google_cloud", "generic"} -> 3
      [] OTHER -> 0

\* for pattern in date_patterns: match = re.search(pattern, text); if match:
\* date = _parse_date(match.group(1)); break -- on the text of one element.
\* date: None or Some(date string) the element's text holds.
DateInText(date, platform) ==
    IF IsNone(date) \/ PatternOf(Val(date), platform) = 0 THEN None
    ELSE _parse_date(Val(date))

(***************************************************************************)
(* Feed parsing                                                            *)
(***************************************************************************)

Item(text, category) == [text |-> text, category |-> category]
Group(date, items) == [date |-> date, items |-> items]

\* `if parsed_date: ... if items: releases.append(...)`: the group an
\* extractor appends for a date and its items, None when it appends nothing.
GroupIf(parsed_date, items) ==
    IF ~IsNone(parsed_date) /\ items # <<>>
    THEN Some(Group(parsed_date, items))
    ELSE None

\* `a` when it is not empty, else `b` (`if not a: a = b`).
OrElse(a, b) == IF a # <<>> THEN a ELSE b

MinLenLi == 5
MinLenBlock == 10

\* The content of a feed entry is the sequence of its elements in document
\* order, records [name, class, text, len]: the tag, the class attribute,
\* the text and the length of the text.

\* soup.find_all(name)
ContentAll(frags, name) == SelectSeq(frags, LAMBDA f : f.name = name)

\* soup.find_all('div', class_=[the five hint classes]) (line 1451)
HintDivs(frags) == SelectSeq(frags, LAMBDA f : f.name = "div" /\ f.class \in HINT_CLASSES)

\* soup.get_text(): the text of the whole content, and its length.
RECURSIVE ContentText(_)
ContentText(frags) ==
    IF frags = <<>> THEN <<>> ELSE Head(frags).text \o ContentText(Tail(frags))

RECURSIVE ContentLen(_)
ContentLen(frags) ==
    IF frags = <<>> THEN 0 ELSE Head(frags).len + ContentLen(Tail(frags))

\* has_headers (line 1447), has_long_content (line 1448)
MinLenLong == 200
has_headers(frags) == \E i \in 1..Len(frags) : frags[i].name \in {"h1", "h2", "h3", "h4"}
has_long_content(frags) == ContentLen(frags) > MinLenLong

\* One item for each of the elements whose text is longer than min (lines
\* 1452-1465, 1484-1495, 1499-1511).
ContentItems(els, min) ==
    LET kept == SelectSeq(els, LAMBDA f : f.text # <<>> /\ f.len > min)
    IN  [i \in 1..Len(kept) |->
            Item(kept[i].text, _categorize_item(Some(kept[i]), kept[i].text))]

\* The whole content as one item (lines 1469-1478, 1514-1523).
WholeItem(frags) ==
    IF ContentText(frags) # <<>> /\ ContentLen(frags) > MinLenBlock
    THEN <<Item(ContentText(frags), _categorize_item(None, ContentText(frags)))>>
    ELSE <<>>

\* A mutant of _parse_xml_content: the list items are looked for first.
ParseXmlContentListFirst(frags, title) ==
    IF frags = <<>>
    THEN IF title # <<>> THEN <<Item(title, _categorize_item(None, title))>> ELSE <<>>
    ELSE OrElse(ContentItems(ContentAll(frags, "li"), MinLenLi),
         OrElse(ContentItems(HintDivs(frags), MinLenLi),
         OrElse(ContentItems(ContentAll(frags, "p"), MinLenBlock), WholeItem(frags))))

\* _parse_xml_content (lines 1387-1537): no content gives one item from the
\* title; else the hint divs, else the whole content when it has headers or
\* is long, else the list items, else the paragraphs, else the whole content.
_parse_xml_content(frags, title) ==
    IF frags = <<>>
    THEN IF title # <<>> THEN <<Item(title, _categorize_item(None, title))>> ELSE <<>>
    ELSE OrElse(ContentItems(HintDivs(frags), MinLenLi),
         OrElse(IF has_headers(frags) \/ has_long_content(frags)
                THEN WholeItem(frags) ELSE <<>>,
         OrElse(ContentItems(ContentAll(frags, "li"), MinLenLi),
         OrElse(ContentItems(ContentAll(frags, "p"), MinLenBlock), WholeItem(frags)))))

\* A mutant of date_elem: the last-modified date is looked for first.
DateElemUpdatedFirst(entry) ==
    IF ~IsNone(entry.updated) THEN entry.updated
    ELSE IF ~IsNone(entry.published) THEN entry.published
    ELSE entry.pubDate

\* The date element of a feed entry (lines 1249-1260): pubDate, else
\* published, else updated -- namespaced or not.  Each field of the entry is
\* None when the entry has no such element, else Some(date string), the text
\* of the element; the kind "empty" is an element without text.
date_elem(entry) ==
    IF ~IsNone(entry.pubDate) THEN entry.pubDate
    ELSE IF ~IsNone(entry.published) THEN entry.published
    ELSE entry.updated

\* parsed_date (lines 1262-1266): None without a date element or with an
\* empty one, else what _parse_xml_date gives.
ParsedDate(elem) ==
    IF IsNone(elem) \/ Val(elem).kind = "empty" THEN None
    ELSE _parse_xml_date(Val(elem))

\* A mutant of FeedEntryGroup: an entry whose date does not parse gives an
\* undated group.
FeedEntryGroupKeepUndated(entry, url) ==
    LET items == IF _is_blog_feed(url)
                 THEN IF entry.title # <<>>
                      THEN <<Item(entry.title, _categorize_item(None, entry.title))>>
                      ELSE <<>>
                 ELSE _parse_xml_content(entry.frags, entry.title)
    IN  IF items # <<>>
        THEN Some(Group(ParsedDate(date_elem(entry)), items))
        ELSE None

\* One entry of a feed (lines 1240-1329): None when the entry yields no
\* group, Some(group) otherwise.
FeedEntryGroup(entry, url) ==
    GroupIf(ParsedDate(date_elem(entry)),
            IF _is_blog_feed(url)
            THEN IF entry.title # <<>>
                 THEN <<Item(entry.title, _categorize_item(None, entry.title))>>
                 ELSE <<>>
            ELSE _parse_xml_content(entry.frags, entry.title))

RECURSIVE Flatten(_)
\* The values of a sequence of optional values, in order.
Flatten(opts) ==
    IF opts = <<>> THEN <<>>
    ELSE Head(opts) \o Flatten(Tail(opts))

\* The releases list _parse_xml_feed builds before it filters (lines 1222-1329).
FeedReleases(entries, url) ==
    Flatten([i \in 1..Len(entries) |-> FeedEntryGroup(entries[i], url)])

(***************************************************************************)
(* HTML parsing.  The content area of a page is the sequence of its child  *)
(* elements: records [name, class, text, date, len, kids] -- the tag, the  *)
(* class, the text, the date string the text holds (None or Some), the     *)
(* length of the text in characters, and for ul/ol the li children.        *)
(***************************************************************************)

\* The length thresholds of the extractors.
MinLenHeader == 15
MinLenLoose == 20

\* str(element): the markup of an element.
Markup(name, el) == <<"<", name, el.class, ">">> \o el.text

\* Python's name_a < name_b on the tag names of the model.
NameRank(name) ==
    CASE name = "div" -> 0 [] name = "h1" -> 1 [] name = "h2" -> 2
      [] name = "h3" -> 3 [] name = "h4" -> 4 [] name = "li" -> 5
      [] name = "ol" -> 6 [] name = "p" -> 7 [] name = "time" -> 8
      [] name = "tr" -> 9 [] OTHER -> 10

InSeq(x, seq) == \E i \in 1..Len(seq) : seq[i] = x

ElementItem(name, el) == Item(Markup(name, el), _categorize_item(Some(el), el.text))

\* The items one sibling gives the structured strategy (lines 1978-2015).
StructuredItemsOf(node) ==
    IF node.class \in HINT_CLASSES
    THEN IF node.text # <<>> /\ node.len > MinLenBlock
         THEN <<ElementItem(node.name, node)>> ELSE <<>>
    ELSE IF node.name \in {"ul", "ol"}
    THEN LET lis == SelectSeq(node.kids, LAMBDA li : li.text # <<>>)
         IN  [k \in 1..Len(lis) |-> ElementItem("li", lis[k])]
    ELSE IF node.name \in {"p", "li", "div"}
    THEN IF node.text # <<>> /\ node.len > MinLenBlock
         THEN <<ElementItem(node.name, node)>> ELSE <<>>
    ELSE <<>>

RECURSIVE StructuredWalk(_, _, _, _)
\* The walk over the siblings that follow a header (lines 1971-2016), from
\* sibling j on.
StructuredWalk(nodes, j, header_name, date_headers) ==
    IF j > Len(nodes) \/ nodes[j].name = header_name THEN <<>>
    ELSE IF InSeq(nodes[j].name, date_headers)
            /\ NameRank(nodes[j].name) < NameRank(header_name) THEN <<>>
    ELSE StructuredItemsOf(nodes[j])
         \o StructuredWalk(nodes, j + 1, header_name, date_headers)

StructuredHeaderGroup(nodes, i, platform) ==
    GroupIf(DateInText(nodes[i].date, platform),
            StructuredWalk(nodes, i + 1, nodes[i].name,
                           PLATFORM_SELECTORS[platform].date_headers))

\* _parse_structured_releases (lines 1953-2025): the groups it appends to
\* self.releases, one pass per header tag of the profile.
_parse_structured_releases(nodes, platform) ==
    LET tags == PLATFORM_SELECTORS[platform].date_headers
        pass(tag) == Flatten([i \in 1..Len(nodes) |->
                        IF nodes[i].name = tag
                        THEN StructuredHeaderGroup(nodes, i, platform) ELSE None])
    IN  Flatten([k \in 1..Len(tags) |-> pass(tags[k])])

\* The items one sibling gives the firebase walk (lines 1852-1884).
FirebaseItemsOf(node) ==
    IF node.name \in {"ul", "ol"}
    THEN LET lis == SelectSeq(node.kids, LAMBDA li : li.text # <<>> /\ li.len > MinLenLi)
         IN  [k \in 1..Len(lis) |-> ElementItem("li", lis[k])]
    ELSE IF node.name = "li"
    THEN IF node.text # <<>> /\ node.len > MinLenLi
         THEN <<ElementItem("li", node)>> ELSE <<>>
    ELSE IF node.name \in {"p", "div"}
    THEN IF node.text # <<>> /\ node.len > MinLenBlock
         THEN <<ElementItem(node.name, node)>> ELSE <<>>
    ELSE <<>>

RECURSIVE FirebaseWalk(_, _, _)
FirebaseWalk(nodes, j, header_name) ==
    IF j > Len(nodes) \/ nodes[j].name = header_name THEN <<>>
    ELSE FirebaseItemsOf(nodes[j]) \o FirebaseWalk(nodes, j + 1, header_name)

\* The li children of every list of the header's parent (lines 1889-1903).
FirebaseNested(nodes) ==
    Flatten([i \in 1..Len(nodes) |->
        IF nodes[i].name \in {"ul", "ol"} THEN FirebaseItemsOf(nodes[i]) ELSE <<>>])

FirebaseHeaderGroup(nodes, i, platform) ==
    GroupIf(DateInText(nodes[i].date, platform),
            OrElse(OrElse(FirebaseWalk(nodes, i + 1, nodes[i].name), FirebaseNested(nodes)),
                   IF nodes[i].len > MinLenHeader
                   THEN <<Item(nodes[i].text, _categorize_item(None, nodes[i].text))>>
                   ELSE <<>>))

\* A table row (lines 1925-1951): the first cell holds the date, the other
\* cells the text.
FirebaseRowGroup(row, platform) ==
    GroupIf(DateInText(row.date, platform),
            IF row.text # <<>> /\ row.len > MinLenBlock
            THEN <<Item(row.text, _categorize_item(None, row.text))>>
            ELSE <<>>)

\* _parse_firebase_releases (lines 1822-1951): the groups it appends.
\* The header passes (lines 1828-1919): one pass for each of h2, h3, h4.
FirebaseHeaderGroups(nodes, platform) ==
    LET tags == <<"h2", "h3", "h4">>
        pass(tag) == Flatten([i \in 1..Len(nodes) |->
                        IF nodes[i].name = tag
                        THEN FirebaseHeaderGroup(nodes, i, platform) ELSE None])
    IN  Flatten([k \in 1..Len(tags) |-> pass(tags[k])])

\* "Also try to parse table-based release notes" (lines 1921-1951): the rows
\* of the tables, whatever the header passes gave.
FirebaseRowGroups(nodes, platform) ==
    Flatten([i \in 1..Len(nodes) |->
        IF nodes[i].name = "tr" THEN FirebaseRowGroup(nodes[i], platform) ELSE None])

_parse_firebase_releases(nodes, platform) ==
    FirebaseHeaderGroups(nodes, platform) \o FirebaseRowGroups(nodes, platform)

\* is_duplicate (lines 2058-2063, 2094-2099): some item already collected has
\* this markup as its text.
is_duplicate(releases, text_content) ==
    \E i \in 1..Len(releases) : \E k \in 1..Len(releases[i].items) :
        releases[i].items[k].text = text_content

\* The date the patterns find in the text of the whole content area (the
\* parent of a top-level element): the first pattern, in the order of the
\* profile, that matches anywhere, at its first match.
ParentDate(nodes, platform) ==
    LET at(p) == {i \in 1..Len(nodes) :
                     ~IsNone(nodes[i].date) /\ PatternOf(Val(nodes[i].date), platform) = p}
        first(S) == CHOOSE i \in S : \A j \in S : i <= j
    IN  IF at(1) # {} THEN _parse_date(Val(nodes[first(at(1))].date))
        ELSE IF at(2) # {} THEN _parse_date(Val(nodes[first(at(2))].date))
        ELSE IF at(3) # {} THEN _parse_date(Val(nodes[first(at(3))].date))
        ELSE None

\* The date found near a hint div (lines 2038-2048): previous sibling, parent,
\* next sibling, the first that gives a date.
NearbyDate(nodes, i, platform) ==
    OrElse(IF i > 1 THEN DateInText(nodes[i - 1].date, platform) ELSE None,
           OrElse(ParentDate(nodes, platform),
                  IF i < Len(nodes) THEN DateInText(nodes[i + 1].date, platform) ELSE None))

\* Lines 2050-2074 and 2083-2113: self.releases after the element el, dated
\* date_found, is looked at: it gains a group of one item when the date is
\* not before the cutoff, the text is longer than 20 characters and the
\* markup is no duplicate.
LooseGroup(el, date_found, releases, cutoff_date) ==
    IF /\ ~IsNone(date_found) /\ Val(date_found).t >= cutoff_date
       /\ el.text # <<>> /\ el.len > MinLenLoose
       /\ ~is_duplicate(releases, Markup(el.name, el))
    THEN Append(releases, Group(date_found, <<ElementItem(el.name, el)>>))
    ELSE releases

RECURSIVE UnstructuredDivs(_, _, _, _, _)
\* The first loop of _parse_unstructured_releases (lines 2030-2074), from
\* element i on; releases is self.releases so far.
UnstructuredDivs(nodes, i, releases, platform, cutoff_date) ==
    IF i > Len(nodes) THEN releases
    ELSE UnstructuredDivs(nodes, i + 1,
             IF nodes[i].name = "div" /\ nodes[i].class \in HINT_CLASSES
             THEN LooseGroup(nodes[i], NearbyDate(nodes, i, platform), releases, cutoff_date)
             ELSE releases,
             platform, cutoff_date)

RECURSIVE UnstructuredTexts(_, _, _, _, _)
\* The second loop (lines 2076-2113): every text node that holds a date gives
\* its parent element as a group.
UnstructuredTexts(nodes, i, releases, platform, cutoff_date) ==
    IF i > Len(nodes) THEN releases
    ELSE UnstructuredTexts(nodes, i + 1,
             LooseGroup(nodes[i], DateInText(nodes[i].date, platform), releases, cutoff_date),
             platform, cutoff_date)

\* _parse_unstructured_releases (lines 2027-2113), called with self.releases
\* empty.
_parse_unstructured_releases(nodes, platform, cutoff_date) ==
    UnstructuredTexts(nodes, 1,
        UnstructuredDivs(nodes, 1, <<>>, platform, cutoff_date),
        platform, cutoff_date)

(***************************************************************************)
(* Responses.  What a GET gives is a record [exc, status, body]: exc is the *)
(* exception requests.get raises ("none" when it returns), status the HTTP *)
(* status, body the document.  A body is a record with one field per       *)
(* reading the extractors make of it:                                      *)
(*   wellformed, entries  -- the XML reading: parses or not, the entries   *)
(*   nodes                -- the HTML reading: children of the content area*)
(*   articles, posts, cards -- the blog readings                           *)
(*   bundle, sections     -- the script readings of the antigravity site   *)
(***************************************************************************)

EmptyBody ==
    [wellformed |-> FALSE, entries |-> <<>>, nodes |-> <<>>, articles |-> <<>>,
     posts |-> <<>>, cards |-> <<>>, bundle |-> FALSE, shape |-> "none",
     sections |-> <<>>]

Response(exc, status, body) == [exc |-> exc, status |-> status, body |-> body]

\* requests.get(url, ...): raises the transport exception, returns the response.
requests_get(resp) == IF resp.exc # "none" THEN Raise(resp.exc) ELSE Ok(resp)

\* response.raise_for_status()
raise_for_status(resp) ==
    IF resp.status >= 400 THEN Raise("HTTPError") ELSE Ok(resp)

\* Two statements in a row: the second is reached when the first raised
\* nothing.
AndThen(first, second) == IF first.exc # "none" THEN first ELSE second

\* requests.get followed by raise_for_status, as every scraper starts.
Fetch(resp) == AndThen(requests_get(resp), raise_for_status(resp))

\* hasattr(e, 'response') and e.response is not None and
\* e.response.status_code == 404 (line 594), e raised by Fetch(resp).
IsNotFound(resp) == resp.exc = "none" /\ resp.status = 404

(***************************************************************************)
(* The antigravity script path                                             *)
(***************************************************************************)

\* _parse_antigravity_date (lines 1804-1820): "abbr" (Dec 8, 2025), "long",
\* "iso" parse to midnight.
_parse_antigravity_date(ds) ==
    IF ds.kind \in {"abbr", "long", "iso"} THEN Some(Naive(midnight(ds.t))) ELSE None

\* The category of an accordion item by the title of its accordion
\* (lines 1709-1716).
AccordionCategory(title) ==
    IF title = "improvements" THEN "ga"
    ELSE IF title \in {"fixes", "patches"} THEN "fixed"
    ELSE "update"

\* The items of one accordion: one per text.
AccordionItems(acc) ==
    [k \in 1..Len(acc.texts) |->
        Item(<<"[", acc.title, "]">> \o acc.texts[k], AccordionCategory(lower(<<acc.title>>)[1]))]

\* One section matched by version_pattern (lines 1686-1728).  A section is a
\* record [version, date, description, changes, accordions].
SectionGroup(sec) ==
    GroupIf(_parse_antigravity_date(sec.date),
            (IF sec.changes # <<>>
             THEN <<Item(<<"<strong>", sec.version, "</strong>", ":">> \o sec.changes,
                         _categorize_item(None, sec.description \o sec.changes))>>
             ELSE <<>>)
            \o Flatten([k \in 1..Len(sec.accordions) |-> AccordionItems(sec.accordions[k])]))

\* One section matched by simple_version_pattern (lines 1664-1685).
SimpleSectionGroup(sec) ==
    GroupIf(_parse_antigravity_date(sec.date),
            <<Item(<<"<strong>", sec.version, "</strong>", ":">> \o sec.description,
                   _categorize_item(None, sec.description))>>)

\* _parse_antigravity_direct on one version/date pair (lines 1746-1802); its
\* pattern takes only "abbr" and "long" dates.
DirectSectionGroup(sec) ==
    LET known == SelectSeq(sec.accordions,
                           LAMBDA acc : acc.title \in {"Improvements", "Fixes", "Patches"})
    IN  GroupIf(IF sec.date.kind \in {"abbr", "long"}
                THEN _parse_antigravity_date(sec.date) ELSE None,
                <<Item(<<"<strong>", "v", sec.version, "</strong>", "-">>
                           \o sec.description \o <<":">> \o sec.changes,
                       _categorize_item(None, sec.description \o sec.changes))>>
                \o Flatten([k \in 1..Len(known) |-> AccordionItems(known[k])]))

\* A mutant of _parse_antigravity_sections: the simplified pattern is tried
\* after the rich one whatever the rich one matched.
ParseAntigravitySectionsBoth(body) ==
    OrElse((IF body.shape = "full"
            THEN Flatten([k \in 1..Len(body.sections) |-> SectionGroup(body.sections[k])])
            ELSE <<>>)
           \o (IF body.shape \in {"full", "simple"}
               THEN Flatten([k \in 1..Len(body.sections) |->
                                SimpleSectionGroup(body.sections[k])])
               ELSE <<>>),
           Flatten([k \in 1..Len(body.sections) |-> DirectSectionGroup(body.sections[k])]))

\* _parse_antigravity_sections (lines 1643-1744).  body.shape says which of
\* the two patterns the text of the sections matches: "full" (the rich
\* pattern, and with it the simplified one), "simple" (the simplified one
\* alone) or "none".
_parse_antigravity_sections(body) ==
    OrElse(IF body.shape = "full"
           THEN Flatten([k \in 1..Len(body.sections) |-> SectionGroup(body.sections[k])])
           ELSE IF body.shape = "simple"
           THEN Flatten([k \in 1..Len(body.sections) |-> SimpleSectionGroup(body.sections[k])])
           ELSE <<>>,
           Flatten([k \in 1..Len(body.sections) |-> DirectSectionGroup(body.sections[k])]))

(***************************************************************************)
(* The blog scrapers: what each extracts before its filter loop            *)
(***************************************************************************)

BlogGroup(date, title) == Group(date, <<Item(title, "announcement")>>)

\* _scrape_cloud_blog, extraction (lines 632-675): the articles of the
\* embedded JSON ([title, timestamp]; timestamp None or Some(t)), else the
\* HTML cards, undated.
CloudBlogReleases(body) ==
    IF body.articles # <<>>
    THEN [k \in 1..Len(body.articles) |->
             BlogGroup(IF IsNone(body.articles[k].timestamp) THEN None
                       ELSE Some(Naive(Val(body.articles[k].timestamp))),
                       body.articles[k].title)]
    ELSE [k \in 1..Len(body.cards) |-> BlogGroup(None, body.cards[k].title)]

\* datetime.strptime(clean_date, '%b %d, %Y') on the date of a post-item
\* (lines 1030-1037).
PostDate(date) ==
    IF ~IsNone(date) /\ Val(date).kind = "abbr" THEN Some(Naive(midnight(Val(date).t)))
    ELSE None

\* _fetch_date_from_url (lines 454-496) on the response of the article page:
\* page.date_class is the text of the date-time element, page.meta the
\* content of the published_time meta tag (None or Some(date string)).
_fetch_date_from_url(resp) ==
    IF resp.exc # "none" \/ resp.status # 200 THEN None
    ELSE LET page == resp.body
         IN  IF ~IsNone(page.date_class) /\ Val(page.date_class).kind = "long"
             THEN Some(Naive(midnight(Val(page.date_class).t)))
             ELSE IF IsNone(page.meta) THEN None
             ELSE IF Val(page.meta).kind \in {"iso_z", "offset"} THEN Some(Aware(Val(page.meta).t))
             ELSE IF Val(page.meta).kind = "iso" THEN Some(Naive(Val(page.meta).t))
             ELSE None

RECURSIVE DevBlogCards(_, _, _)
\* The glue-card loop of _scrape_developers_blog (lines 1053-1085), from card
\* k on; releases is the list so far.
DevBlogCards(cards, k, releases) ==
    IF k > Len(cards) THEN releases
    ELSE LET card == cards[k]
             dup == \E i \in 1..Len(releases) : releases[i].items[1].text = card.title
         IN  DevBlogCards(cards, k + 1,
                 IF dup THEN releases
                 ELSE Append(releases, BlogGroup(_fetch_date_from_url(card.page), card.title)))

\* _scrape_developers_blog, extraction (lines 1011-1085).
DevBlogReleases(body) ==
    DevBlogCards(body.cards, 1,
        [k \in 1..Len(body.posts) |->
            BlogGroup(PostDate(body.posts[k].date), body.posts[k].title)])

RECURSIVE DevBlogFetches(_, _, _)
\* The article pages the glue-card loop requests, in order.
DevBlogFetches(cards, k, titles) ==
    IF k > Len(cards) THEN <<>>
    ELSE IF cards[k].title \in titles THEN DevBlogFetches(cards, k + 1, titles)
    ELSE <<cards[k].page>> \o DevBlogFetches(cards, k + 1, titles \cup {cards[k].title})

(***************************************************************************)
(* The calendar of _parse_relative_date.  A datetime is the number of      *)
(* minutes since midnight of January 1 of the first year of YearRange.     *)
(***************************************************************************)

YearRange == 2020..2027
EpochYear == CHOOSE y \in YearRange : \A z \in YearRange : y <= z

MinutesPerHour == 60
MinutesPerDay == 24 * MinutesPerHour
DaysPerWeek == 7

IsLeap(y) == y % 4 = 0 /\ (y % 100 # 0 \/ y % 400 = 0)

DaysInMonth(y, m) ==
    CASE m \in {4, 6, 9, 11} -> 30
      [] m = 2 -> IF IsLeap(y) THEN 29 ELSE 28
      [] OTHER -> 31

\* datetime(y, m, d) raises ValueError for a day the month does not have.
IsValidDate(y, m, d) == m \in 1..12 /\ d \in 1..DaysInMonth(y, m)

RECURSIVE DaysBeforeMonth(_, _)
DaysBeforeMonth(y, m) ==
    IF m = 1 THEN 0 ELSE DaysBeforeMonth(y, m - 1) + DaysInMonth(y, m - 1)

RECURSIVE DaysBeforeYear(_)
DaysBeforeYear(y) ==
    IF y = EpochYear THEN 0
    ELSE DaysBeforeYear(y - 1) + (IF IsLeap(y - 1) THEN 366 ELSE 365)

\* datetime(y, m, d, 0, minute)
datetime(y, m, d, minute) ==
    (DaysBeforeYear(y) + DaysBeforeMonth(y, m) + d - 1) * MinutesPerDay + minute

\* now.year
YearOf(t) ==
    CHOOSE y \in YearRange : datetime(y, 1, 1, 0) <= t /\ t < datetime(y + 1, 1, 1, 0)

\* The year datetime.strptime gives a string that names none.
StrptimeDefaultYear == 1900

\* The strings of _parse_relative_date, stripped and lower-cased, are records:
\*   [kind |-> "ago", t |-> n, unit |-> u]   "<n> <u> ago", u any word
\*   [kind |-> "just_now"], "now", "yesterday"
\*   [kind |-> "with_year", year, month, day]   "Dec 10, 2024"
\*   [kind |-> "month_day", month, day]         "Dec 10"
\* and any other kind is a string no rule matches.
\* group(2) of the regex (line 745) for the word between the number and
\* "ago": one of the alternatives, with one optional s after it; None when
\* the regex does not match.
AgoGroup(unit) ==
    CASE unit \in {"d", "ds"}              -> Some("d")
      [] unit \in {"day", "days"}          -> Some("day")
      [] unit \in {"h", "hs"}              -> Some("h")
      [] unit \in {"hr", "hrs"}            -> Some("hr")
      [] unit \in {"hour", "hours"}        -> Some("hour")
      [] unit \in {"m", "ms"}              -> Some("m")
      [] unit \in {"min", "mins"}          -> Some("min")
      [] unit \in {"minute", "minutes"}    -> Some("minute")
      [] unit \in {"w", "ws"}              -> Some("w")
      [] unit \in {"week", "weeks"}        -> Some("week")
      [] OTHER                             -> None

\* Lines 747-757: now minus the timedelta of the unit.
AgoDate(value, unit, now) ==
    CASE unit \in {"d", "day"}           -> now - value * MinutesPerDay
      [] unit \in {"h", "hr", "hour"}    -> now - value * MinutesPerHour
      [] unit \in {"m", "min", "minute"} -> now - value
      [] unit \in {"w", "week"}          -> now - value * DaysPerWeek * MinutesPerDay

\* Lines 782-798: strptime with '%b %d' (the year is 1900), the current year
\* put in, and the year before when that is later than now.
NoYearDate(month, day, now) ==
    IF ~IsValidDate(StrptimeDefaultYear, month, day) THEN None
    ELSE IF datetime(YearOf(now), month, day, 0) > now
    THEN Some(datetime(YearOf(now) - 1, month, day, 0))
    ELSE Some(datetime(YearOf(now), month, day, 0))

\* A mutant of _parse_relative_date: every unit is read as days.
ParseRelativeDateAllDays(s, now) ==
    IF s.kind = "ago" /\ ~IsNone(AgoGroup(s.unit))
    THEN Some(now - s.t * MinutesPerDay)
    ELSE IF s.kind \in {"just_now", "now"} THEN Some(now)
    ELSE IF s.kind = "yesterday" THEN Some(now - MinutesPerDay)
    ELSE IF s.kind = "with_year"
    THEN IF IsValidDate(s.year, s.month, s.day)
         THEN Some(datetime(s.year, s.month, s.day, 0)) ELSE None
    ELSE IF s.kind = "month_day" THEN NoYearDate(s.month, s.day, now)
    ELSE None

\* _parse_relative_date (lines 739-800); now is datetime.now() (line 742).
_parse_relative_date(s, now) ==
    IF s.kind = "ago" /\ ~IsNone(AgoGroup(s.unit))
    THEN Some(AgoDate(s.t, Val(AgoGroup(s.unit)), now))
    ELSE IF s.kind \in {"just_now", "now"} THEN Some(now)
    ELSE IF s.kind = "yesterday" THEN Some(now - MinutesPerDay)
    ELSE IF s.kind = "with_year"
    THEN IF IsValidDate(s.year, s.month, s.day)
         THEN Some(datetime(s.year, s.month, s.day, 0)) ELSE None
    ELSE IF s.kind = "month_day" THEN NoYearDate(s.month, s.day, now)
    ELSE None

AgoStr(n, unit) == [kind |-> "ago", t |-> n, unit |-> unit]

\* The clock of the run read in minutes, and a datetime in minutes read in
\* the ticks of the run.
MinutesPerTick == MinutesPerDay \div TicksPerDay
InTicks(parsed) ==
    IF IsNone(parsed) THEN None ELSE Some(Naive(Val(parsed) \div MinutesPerTick))

\* The date of a Medium article from its time element (lines 878-892):
\* fromisoformat with the tzinfo dropped, else the relative reading.
MediumDate(date) ==
    IF IsNone(date) THEN None
    ELSE IF Val(date).kind \in {"iso_z", "offset", "iso"} THEN Some(Naive(Val(date).t))
    ELSE InTicks(_parse_relative_date(Val(date), Now * MinutesPerTick))

\* _scrape_medium_blog, extraction (lines 855-960): articles with a title of
\* 10 characters or more; with no article at all, the link cards, undated.
MediumReleases(body) ==
    LET arts == SelectSeq(body.articles, LAMBDA a : a.title # <<>> /\ a.len >= MinLenBlock)
        links == SelectSeq(body.cards, LAMBDA c : c.title # <<>> /\ c.len > MinLenHeader)
    IN  IF arts # <<>>
        THEN [k \in 1..Len(arts) |-> BlogGroup(MediumDate(arts[k].date), arts[k].title)]
        ELSE [k \in 1..Len(links) |-> BlogGroup(None, links[k].title)]

(***************************************************************************)
(* ReleaseNotesScraper: construction and the scrape paths                  *)
(***************************************************************************)

\* Python truthiness of an optional int: None and 0 are falsy.
Truthy(opt) == ~IsNone(opt) /\ Val(opt) # 0

DefaultMonths == 12
DaysPerMonth == 30

\* __init__ (lines 343-381): the fields of the new scraper.
__init__(url, months, days, start_date, end_date, categories, service_name) ==
    [url |-> url,
     months |-> IF IsNone(start_date) /\ ~Truthy(days) /\ ~Truthy(months)
                THEN Some(DefaultMonths) ELSE months,
     days |-> days,
     start_date |-> start_date,
     end_date |-> IF IsNone(end_date) THEN Now ELSE Val(end_date),
     categories |-> IF IsNone(categories) \/ Val(categories) = {} THEN None ELSE categories,
     service_name |-> service_name,
     cutoff_date |->
        IF ~IsNone(start_date) THEN Val(start_date)
        ELSE IF Truthy(days) THEN midnight(Now - timedelta_days(Val(days)))
        ELSE IF Truthy(months) THEN midnight(Now - timedelta_days(Val(months) * DaysPerMonth))
        ELSE midnight(Now - timedelta_days(DefaultMonths * DaysPerMonth)),
     platform |-> _detect_platform(url),
     is_xml_feed |-> _is_xml_url(url),
     used_fallback |-> FALSE]

\* A mutant of the except clauses: a clause catches only the class it names.
IsCaughtExactly(exc, handlers) == \E i \in 1..Len(handlers) : exc = handlers[i]

\* Whether one of the except clauses of a try statement catches exc.
IsCaught(exc, handlers) == \E i \in 1..Len(handlers) : IsInstance(exc, handlers[i])

\* try: <outcome> except <handlers>: return [] -- what the statement gives.
TryExcept(outcome, handlers) ==
    IF outcome.exc = "none" THEN outcome
    ELSE IF IsCaught(outcome.exc, handlers) THEN Ok(<<>>)
    ELSE outcome

\* _parse_xml_feed (lines 1214-1335) on the body of the response.
_parse_xml_feed(self, body) ==
    IF ~body.wellformed THEN Ok(<<>>)
    ELSE BothFilters(FeedReleases(body.entries, self.url), self)

\* A mutant of the fallback test: every failure of the feed request falls back.
ShouldFallbackAnyFailure(self, resp) ==
    Fetch(resp).exc # "none" /\ ~IsNone(_get_fallback_url(self.service_name))

\* The test of lines 592-597: the feed request failed with a 404 and the
\* service has a fallback.
ShouldFallback(self, resp) ==
    /\ IsInstance(Fetch(resp).exc, "RequestException")
    /\ IsNotFound(resp)
    /\ ~IsNone(_get_fallback_url(self.service_name))

\* The feed branch of scrape (lines 587-608) when it does not fall back.
ScrapeXmlOutcome(self, resp) ==
    TryExcept(AndThen(Fetch(resp), _parse_xml_feed(self, resp.body)),
              <<"RequestException", "Exception">>)

\* A mutant of the dispatch: the unstructured strategy always runs.
HtmlReleasesAllStrategies(self, url, body) ==
    LET platform == _detect_platform(url)
    IN  IF platform \notin DOMAIN PLATFORM_SELECTORS THEN Raise("KeyError")
        ELSE IF platform = "antigravity" THEN Raise("AttributeError")
        ELSE Ok((IF platform = "firebase"
                 THEN _parse_firebase_releases(body.nodes, platform)
                 ELSE _parse_structured_releases(body.nodes, platform))
                \o _parse_unstructured_releases(body.nodes, platform, self.cutoff_date))

\* The releases _scrape_html collects in self.releases (lines 1141-1167), or
\* the exception the collection raises.  PLATFORM_SELECTORS has no profile
\* for the blog platforms; the class has no _parse_antigravity_releases.
HtmlReleases(self, url, body) ==
    LET platform == _detect_platform(url)
    IN  IF platform \notin DOMAIN PLATFORM_SELECTORS THEN Raise("KeyError")
        ELSE IF platform = "antigravity" THEN Raise("AttributeError")
        ELSE Ok(OrElse(IF platform = "firebase"
                       THEN _parse_firebase_releases(body.nodes, platform)
                       ELSE _parse_structured_releases(body.nodes, platform),
                       _parse_unstructured_releases(body.nodes, platform, self.cutoff_date)))

\* The two filters on what an extraction collected, when it raised nothing.
FilteredOutcome(collected, self) ==
    IF collected.exc # "none" THEN collected ELSE BothFilters(collected.val, self)

\* A mutant of _scrape_html: the status of the response is not looked at.
ScrapeHtmlAnyStatus(self, url, resp) ==
    TryExcept(AndThen(requests_get(resp),
                      FilteredOutcome(HtmlReleases(self, url, resp.body), self)),
              <<"RequestException", "Exception">>)

\* _scrape_html (lines 1117-1182).
_scrape_html(self, url, resp) ==
    TryExcept(AndThen(Fetch(resp), FilteredOutcome(HtmlReleases(self, url, resp.body), self)),
              <<"RequestException", "Exception">>)

\* _scrape_cloud_blog (lines 625-700).
_scrape_cloud_blog(self, resp) ==
    TryExcept(AndThen(Fetch(resp), BlogFilter(CloudBlogReleases(resp.body), self)), <<"Exception">>)

\* _scrape_developers_blog (lines 1004-1109).
_scrape_developers_blog(self, resp) ==
    TryExcept(AndThen(Fetch(resp), BlogFilter(DevBlogReleases(resp.body), self)), <<"Exception">>)

\* _scrape_antigravity_js after the bundle is fetched (lines 1567-1619).
\* _scrape_antigravity_js, lines 1574-1607: the changelog literal is looked
\* for, by the pattern and then statement by statement; a bundle of shape
\* "missing" holds none and gives [] before any section is parsed.
AntigravityReleases(body) ==
    IF body.shape = "missing" THEN <<>> ELSE _parse_antigravity_sections(body)

AntigravityBundleOutcome(self, resp) ==
    TryExcept(AndThen(Fetch(resp), BothFilters(AntigravityReleases(resp.body), self)),
              <<"RequestException", "Exception">>)

\* The groups a scraper extracted from an answered request, before its
\* filters: <<>> when the request or the extraction failed.
Extracted(outcome) == IF outcome.exc = "none" THEN outcome.val ELSE <<>>

(***************************************************************************)
(* The inputs: command lines, and what the sites answer                    *)
(***************************************************************************)

T_security == <<"Security", "patch", "introduces", "a", "breaking", "change">>
T_preview  == <<"search", "(", "Preview", ")">>
T_fixed    == <<"fixed", "a", "crash">>
T_plain    == <<"new", "dashboard">>

\* The --start-date and --end-date values of the runs: two days back at
\* midnight, and the end of yesterday.
StartDates == {midnight(Now - timedelta_days(2))}
EndDates == {end_of_day(Now - timedelta_days(1))}

\* The command lines: at most one of --days, --months, --start-date
\* (main, lines 2926-2931), any --end-date not before the start, any
\* --category list, and one of -s, -g, -u, --blogs.
TimeOptions ==
    {[days |-> None, months |-> None, start_date |-> None]}
    \cup {[days |-> Some(d), months |-> None, start_date |-> None] : d \in {0, 1}}
    \cup {[days |-> None, months |-> Some(1), start_date |-> None]}
    \cup {[days |-> None, months |-> None, start_date |-> Some(t)] : t \in StartDates}

Sources ==
    {[mode |-> "service", target |-> n] : n \in DOMAIN SERVICE_FEEDS}
    \cup {[mode |-> "group", target |-> g] : g \in DOMAIN SERVICE_GROUPS}
    \cup {[mode |-> "url", target |-> u] : u \in {U_custom, U_medium_html, U_api_gateway, U_blog_containers, U_dev_blog,
                    U_antigravity_feed, U_blog_feed, U_dev_on_cloud, U_medium_on_dev}}
    \cup {[mode |-> "blogs", target |-> ""]}

Args ==
    {[days |-> o.days, months |-> o.months, start_date |-> o.start_date,
      end_date |-> e, category |-> c, mode |-> s.mode, target |-> s.target] :
        o \in TimeOptions,
        e \in {None} \cup {Some(t) : t \in EndDates},
        c \in {None, Some({"security"}), Some({"announcement", "ga"})},
        s \in Sources}

\* The instants the documents date their content with: just outside and just
\* inside each end of the range of the scraper.
Instants(self) ==
    {self.cutoff_date - 1, self.cutoff_date, self.end_date, self.end_date + 1}

DateStr(kind, t) == [kind |-> kind, t |-> t]

Failures ==
    {Response("Timeout", 0, EmptyBody), Response("ConnectionError", 0, EmptyBody)}

\* The page an HTTP error carries: it reads as a feed and as a page with one
\* dated note at the cutoff.
ErrorBody(self) ==
    [EmptyBody EXCEPT
        !.wellformed = TRUE,
        !.entries = <<[pubDate |-> None,
                       published |-> Some(DateStr("iso_z", self.cutoff_date)),
                       updated |-> None, title |-> T_plain, frags |-> <<>>]>>,
        !.nodes = <<[name |-> "h2", class |-> "", text |-> <<"Not", "Found">>,
                     date |-> Some(DateStr("long", self.cutoff_date)), len |-> 9,
                     kids |-> <<>>],
                    [name |-> "p", class |-> "", text |-> T_plain, date |-> None,
                     len |-> 13, kids |-> <<>>]>>,
        !.articles = <<[title |-> T_plain, timestamp |-> Some(self.cutoff_date),
                        date |-> Some(DateStr("iso", self.cutoff_date)), len |-> 13]>>,
        !.bundle = TRUE,
        !.shape = "simple",
        !.sections = <<[version |-> "1.0.0", date |-> DateStr("abbr", self.cutoff_date),
                        description |-> T_plain, changes |-> <<>>, accordions |-> <<>>]>>]

HttpErrors(self) ==
    {Response("none", 404, ErrorBody(self)), Response("none", 500, ErrorBody(self))}

\* The entries of the feeds.
Frag(class, text) == [class |-> class, text |-> text]

EntryDates(self) ==
    {None, Some(DateStr("garbage", self.cutoff_date)),
     Some(DateStr("offset", self.cutoff_date)), Some(DateStr("date", self.end_date))}
    \cup {Some(DateStr("iso_z", t)) : t \in Instants(self)}

ContentEl(name, class, text, len) ==
    [name |-> name, class |-> class, text |-> text, len |-> len]

\* The contents of an entry: none; a hint div; a list item and a hint div;
\* a list item and a paragraph; paragraphs alone; a header and a list item;
\* a long list item; a short list item and a span; a short span alone.
EntryContents ==
    {[title |-> T_security, frags |-> <<>>],
     [title |-> <<>>, frags |-> <<>>],
     [title |-> T_plain, frags |-> <<ContentEl("div", "release-feature", T_preview, 16)>>],
     [title |-> T_plain, frags |-> <<ContentEl("li", "", T_plain, 13),
                                     ContentEl("div", "release-breaking", T_fixed, 13)>>],
     [title |-> T_plain, frags |-> <<ContentEl("li", "", T_security, 40),
                                     ContentEl("p", "", T_plain, 13)>>],
     [title |-> T_plain, frags |-> <<ContentEl("p", "", T_fixed, 13),
                                     ContentEl("p", "", <<"ok">>, 2)>>],
     [title |-> T_plain, frags |-> <<ContentEl("h2", "", <<"Release", "of">>, 10),
                                     ContentEl("li", "", T_security, 40)>>],
     [title |-> T_plain, frags |-> <<ContentEl("li", "", T_security, 240)>>],
     [title |-> T_plain, frags |-> <<ContentEl("li", "", <<"ok">>, 2),
                                     ContentEl("span", "", T_fixed, 13)>>],
     [title |-> T_plain, frags |-> <<ContentEl("span", "", <<"ok">>, 2)>>]}

\* The date elements of an entry: an Atom entry with a published element
\* alone (or none), and entries that hold several of pubDate, published and
\* updated, with different dates, inside and outside the range.
DateElems(pubDate, published, updated) ==
    [pubDate |-> pubDate, published |-> published, updated |-> updated]

EntryDateElems(self) ==
    {DateElems(None, d, None) : d \in EntryDates(self)}
    \cup {DateElems(None, None, Some(DateStr("iso_z", self.end_date))),
          DateElems(Some(DateStr("offset", self.end_date)), None, None),
          DateElems(None, Some(DateStr("iso_z", self.end_date)),
                    Some(DateStr("iso_z", self.cutoff_date))),
          DateElems(None, Some(DateStr("iso_z", self.cutoff_date - 1)),
                    Some(DateStr("iso_z", self.end_date))),
          DateElems(Some(DateStr("offset", self.end_date)),
                    Some(DateStr("iso_z", self.cutoff_date)),
                    Some(DateStr("iso_z", self.cutoff_date - 1))),
          DateElems(Some(DateStr("empty", 0)), Some(DateStr("iso_z", self.end_date)), None)}

Entries(self) ==
    {[pubDate |-> d.pubDate, published |-> d.published, updated |-> d.updated,
      title |-> c.title, frags |-> c.frags] :
        d \in EntryDateElems(self), c \in EntryContents}

InRangeEntry(self) ==
    [pubDate |-> None, published |-> Some(DateStr("iso_z", self.end_date)),
     updated |-> None, title |-> T_fixed, frags |-> <<>>]

FeedBody(entries) == [EmptyBody EXCEPT !.wellformed = TRUE, !.entries = entries]

\* What a feed URL answers.  In a run over several sources (small) the
\* answers are a sample of these.
FeedResponses(self, small) ==
    IF small
    THEN {Response("Timeout", 0, EmptyBody), Response("none", 404, ErrorBody(self)),
          Response("none", 200, FeedBody(<<InRangeEntry(self)>>)),
          Response("none", 200, FeedBody(<<[pubDate |-> None,
                                            published |-> Some(DateStr("garbage", self.cutoff_date)),
                                            updated |-> None,
                                            title |-> T_security, frags |-> <<>>]>>))}
    ELSE Failures \cup HttpErrors(self)
         \cup {Response("none", 200, EmptyBody), Response("none", 200, FeedBody(<<>>))}
         \cup {Response("none", 200, FeedBody(<<e>>)) : e \in Entries(self)}
         \cup {Response("none", 200, FeedBody(<<InRangeEntry(self), e>>)) : e \in Entries(self)}

\* The elements of the pages.
Node(name, class, text, date, len, kids) ==
    [name |-> name, class |-> class, text |-> text, date |-> date, len |-> len,
     kids |-> kids]

Header(name, ds) == Node(name, "", <<"Release", "of">>, Some(ds), 16, <<>>)
Li(class, text, len) == Node("li", class, text, None, len, <<>>)

PageDates(self) ==
    {DateStr("long", t) : t \in Instants(self)}
    \cup {DateStr("iso", self.cutoff_date), DateStr("slash", self.end_date),
          DateStr("badmatch", self.cutoff_date), DateStr("garbage", self.cutoff_date)}

\* The pages: a header with a list; headers of two levels with a hint div
\* under the lower one; a lower header before a higher one; no header, a hint
\* div next to a dated paragraph; one short dated paragraph; a header alone
\* and a table row.
Pages(self) ==
    UNION {
        {<<Header("h2", ds),
           Node("ul", "", <<>>, None, 0,
                <<Li("release-featured", T_preview, 16), Li("", T_security, 40),
                  Li("", <<>>, 0), Li("", <<"ok">>, 2)>>)>>,
         <<Header("h2", ds),
           Node("p", "", T_fixed, None, 13, <<>>),
           Header("h3", DateStr("long", self.cutoff_date)),
           Node("div", "release-changed", T_plain, None, 25, <<>>),
           Node("h1", "", <<"More">>, None, 4, <<>>),
           Node("p", "note", T_security, None, 40, <<>>)>>,
         <<Header("h3", ds),
           Node("p", "", T_plain, None, 13, <<>>),
           Header("h2", DateStr("long", self.end_date)),
           Node("p", "", T_fixed, None, 13, <<>>)>>,
         <<Node("div", "release-feature", T_preview, None, 25, <<>>),
           Node("p", "", T_security, Some(ds), 40, <<>>)>>,
         <<Node("p", "", T_plain, Some(ds), 8, <<>>)>>,
         <<Header("h4", ds),
           Node("tr", "", T_fixed, Some(ds), 13, <<>>)>>} : ds \in PageDates(self)}

HtmlBody(nodes) == [EmptyBody EXCEPT !.nodes = nodes]

\* What a page URL answers.
HtmlResponses(self, small) ==
    IF small
    THEN {Response("ConnectionError", 0, EmptyBody), Response("none", 404, ErrorBody(self)),
          Response("none", 200, HtmlBody(<<Header("h2", DateStr("long", self.end_date)),
                                           Node("p", "", T_security, None, 40, <<>>)>>))}
    ELSE Failures \cup HttpErrors(self)
         \cup {Response("none", 200, HtmlBody(<<>>))}
         \cup {Response("none", 200, HtmlBody(page)) : page \in Pages(self)}

\* The antigravity site: the page names a bundle or not; the bundle holds
\* the sections.
Accordion(title, texts) == [title |-> title, texts |-> texts]

Sections(self) ==
    {[version |-> "1.0.0", date |-> d, description |-> T_plain, changes |-> c,
      accordions |-> a] :
        d \in {DateStr("abbr", t) : t \in Instants(self)}
              \cup {DateStr("iso", self.cutoff_date), DateStr("garbage", self.cutoff_date)},
        c \in {<<>>, T_security},
        a \in {<<>>, <<Accordion("Improvements", <<T_plain>>),
                       Accordion("Fixes", <<T_fixed, T_plain>>),
                       Accordion("Notes", <<T_plain>>)>>}}

BundleBody(shape, sections) == [EmptyBody EXCEPT !.shape = shape, !.sections = sections]

AntigravityPages(self, small) ==
    (IF small THEN {Response("Timeout", 0, EmptyBody)} ELSE Failures \cup HttpErrors(self))
    \cup {Response("none", 200, [EmptyBody EXCEPT !.bundle = b]) :
             b \in IF small THEN {TRUE} ELSE BOOLEAN}

AntigravityBundles(self, small) ==
    IF small
    THEN {Response("none", 500, ErrorBody(self)),
          Response("none", 200, BundleBody("full",
              <<[version |-> "1.0.0", date |-> DateStr("abbr", self.end_date),
                 description |-> T_plain, changes |-> T_fixed, accordions |-> <<>>]>>))}
    ELSE Failures \cup HttpErrors(self)
         \cup {Response("none", 200, BundleBody("none", <<>>))}
         \cup {Response("none", 200, BundleBody(sh, <<sec>>)) :
                  sh \in {"full", "simple", "none", "missing"}, sec \in Sections(self)}

\* The blog pages.
Article(title, timestamp, date, len) ==
    [title |-> title, timestamp |-> timestamp, date |-> date, len |-> len]

Card(title, len, page) == [title |-> title, len |-> len, page |-> page]

ArticlePage(date_class, meta) == [date_class |-> date_class, meta |-> meta]

NoPage == Response("none", 200, ArticlePage(None, None))

BlogBody(articles, posts, cards) ==
    [EmptyBody EXCEPT !.articles = articles, !.posts = posts, !.cards = cards]

CloudBlogResponses(self, small) ==
    IF small
    THEN {Response("none", 500, ErrorBody(self)),
          Response("none", 200, BlogBody(<<>>, <<>>, <<Card(T_plain, 13, NoPage)>>)),
          Response("none", 200,
              BlogBody(<<Article(T_security, Some(self.end_date), None, 40)>>, <<>>, <<>>))}
    ELSE Failures \cup HttpErrors(self)
         \cup {Response("none", 200, BlogBody(<<>>, <<>>, cards)) :
                  cards \in {<<>>, <<Card(T_plain, 13, NoPage)>>}}
         \cup {Response("none", 200,
                   BlogBody(<<Article(T_security, ts, None, 40)>> \o more, <<>>,
                            <<Card(T_plain, 13, NoPage)>>)) :
                  ts \in {None} \cup {Some(t) : t \in Instants(self)},
                  more \in {<<>>, <<Article(T_plain, None, None, 13)>>,
                            <<Article(T_fixed, Some(self.cutoff_date), None, 13)>>}}

\* What the article pages of the developers blog answer.
ArticlePages(self) ==
    {Response("Timeout", 0, ArticlePage(None, None)),
     Response("none", 404, ArticlePage(None, None)),
     NoPage,
     Response("none", 200, ArticlePage(Some(DateStr("long", self.end_date)), None)),
     Response("none", 200, ArticlePage(Some(DateStr("garbage", self.end_date)),
                                       Some(DateStr("iso", self.cutoff_date)))),
     Response("none", 200, ArticlePage(None, Some(DateStr("iso_z", self.end_date)))),
     Response("none", 200, ArticlePage(None, Some(DateStr("garbage", self.end_date))))}

Post(title, date) == [title |-> title, date |-> date]

DevBlogResponses(self, small) ==
    IF small
    THEN {Response("Timeout", 0, EmptyBody),
          Response("none", 200,
              BlogBody(<<>>, <<Post(T_fixed, Some(DateStr("abbr", self.end_date)))>>, <<>>)),
          Response("none", 200,
              BlogBody(<<>>, <<Post(T_fixed, Some(DateStr("abbr", self.end_date)))>>,
                       <<Card(T_plain, 13, Response("none", 200,
                            ArticlePage(None, Some(DateStr("iso_z", self.end_date)))))>>))}
    ELSE Failures \cup HttpErrors(self)
         \cup {Response("none", 200, BlogBody(<<>>, posts, cards)) :
                  posts \in {<<>>}
                      \cup {<<Post(T_fixed, Some(DateStr("abbr", t)))>> : t \in Instants(self)}
                      \cup {<<Post(T_fixed, d)>> :
                               d \in {None, Some(DateStr("garbage", self.cutoff_date))}},
                  cards \in {<<>>, <<Card(T_fixed, 13, NoPage)>>}
                      \cup {<<Card(T_plain, 13, pg)>> : pg \in ArticlePages(self)}}

\* What the browser shows of the Medium page.
MediumPages(self) ==
    {BlogBody(<<>>, <<>>, cards) :
        cards \in {<<>>, <<Card(T_security, 40, NoPage), Card(T_plain, 13, NoPage)>>}}
    \cup {BlogBody(<<Article(T_security, None, d, 40), Article(T_plain, None, None, 9)>>,
                   <<>>, <<>>) :
             d \in {None, Some(DateStr("garbage", self.cutoff_date)),
                    Some(DateStr("offset", self.cutoff_date)),
                    Some(AgoStr(1, "days"))}
                   \cup {Some(DateStr("iso_z", t)) : t \in Instants(self)}}

(***************************************************************************)
(* The run: main() and the scrape of each source                           *)
(***************************************************************************)

Init ==
    /\ args \in Args
    /\ pc = "main"
    /\ urls = <<>>
    /\ idx = 0
    /\ all_releases = <<>>
    /\ scraper = <<>>
    /\ reqs = <<>>
    /\ found = <<>>
    /\ result = <<>>
    /\ driver = "none"
    /\ fn_arg = <<>>
    /\ fn_ret = <<>>

Source(url, service_name) == [url |-> url, service_name |-> service_name]

\* main, lines 2869-2897: the sources of the run.
SourcesOf(a) ==
    IF a.mode = "service" THEN <<Source(SERVICE_FEEDS[a.target], a.target)>>
    ELSE IF a.mode = "group"
    THEN [k \in 1..Len(SERVICE_GROUPS[a.target]) |->
             Source(SERVICE_FEEDS[SERVICE_GROUPS[a.target][k]], SERVICE_GROUPS[a.target][k])]
    ELSE IF a.mode = "url" THEN <<Source(a.target, "custom")>>
    ELSE [k \in 1..Len(BLOG_URLS) |-> Source(BLOG_URLS[k].url, BLOG_URLS[k].name)]

\* main, lines 2869-2936: the sources, and the default of twelve months when
\* no time option is truthy.
MainArgs ==
    /\ pc = "main"
    /\ urls' = SourcesOf(args)
    /\ args' = [args EXCEPT !.months =
                   IF IsNone(args.start_date) /\ ~Truthy(args.months) /\ ~Truthy(args.days)
                   THEN Some(DefaultMonths) ELSE @]
    /\ idx' = 1
    /\ pc' = "loop"
    /\ UNCHANGED <<fn_arg, fn_ret, all_releases, scraper, reqs, found, result, driver>>

\* main, lines 2961-2973: a new scraper for the next source.
MainConstruct ==
    /\ pc = "loop"
    /\ idx <= Len(urls)
    /\ scraper' = __init__(urls[idx].url, args.months, args.days, args.start_date,
                           args.end_date, args.category, urls[idx].service_name)
    /\ reqs' = <<>>
    /\ found' = <<>>
    /\ result' = <<>>
    /\ driver' = "none"
    /\ pc' = "scrape"
    /\ UNCHANGED <<fn_arg, fn_ret, args, urls, idx, all_releases>>

\* In a run over several sources the answers are drawn from the samples.
small == Len(urls) > 1

Req(role, url, resp) == [role |-> role, url |-> url, resp |-> resp]

\* scrape returns outcome.val, or lets the exception of outcome through.
Return(outcome) ==
    /\ pc' = IF outcome.exc = "none" THEN "returned" ELSE "crashed"
    /\ result' = outcome.val

\* scrape, lines 587-608: the feed is requested; it is parsed, or the request
\* failed and scrape returns [], or it goes on to the fallback page.
ScrapeXmlFeed ==
    /\ pc = "scrape"
    /\ scraper.is_xml_feed
    /\ \E resp \in FeedResponses(scraper, small) :
          /\ reqs' = <<Req("primary", scraper.url, resp)>>
          /\ IF ShouldFallback(scraper, resp)
             THEN /\ pc' = "fallback"
                  /\ UNCHANGED <<found, result>>
             ELSE /\ Return(ScrapeXmlOutcome(scraper, resp))
                  /\ found' = IF Fetch(resp).exc = "none" /\ resp.body.wellformed
                              THEN FeedReleases(resp.body.entries, scraper.url) ELSE <<>>
    /\ UNCHANGED <<fn_arg, fn_ret, args, urls, idx, all_releases, scraper, driver>>

\* _scrape_html(url) called as `role`: the request, the fields it sets, the
\* return.
ScrapeHtmlCall(role, url) ==
    \E resp \in HtmlResponses(scraper, small) :
        /\ reqs' = Append(reqs, Req(role, url, resp))
        /\ scraper' = IF Fetch(resp).exc = "none"
                      THEN [scraper EXCEPT !.used_fallback = TRUE,
                                           !.platform = _detect_platform(url)]
                      ELSE scraper
        /\ found' = IF Fetch(resp).exc = "none"
                    THEN Extracted(HtmlReleases(scraper, url, resp.body)) ELSE <<>>
        /\ Return(_scrape_html(scraper, url, resp))

\* scrape, line 600: the fallback page.
ScrapeFallback ==
    /\ pc = "fallback"
    /\ ScrapeHtmlCall("fallback", Val(_get_fallback_url(scraper.service_name)))
    /\ UNCHANGED <<fn_arg, fn_ret, args, urls, idx, all_releases, driver>>

\* scrape, line 623: the page itself.
ScrapeHtmlDirect ==
    /\ pc = "scrape"
    /\ ~scraper.is_xml_feed
    /\ ~_is_antigravity_url(scraper.url)
    /\ scraper.platform \notin {"cloud_blog", "developers_blog", "medium_blog"}
    /\ ScrapeHtmlCall("primary", scraper.url)
    /\ UNCHANGED <<fn_arg, fn_ret, args, urls, idx, all_releases, driver>>

\* _scrape_antigravity_js, lines 1550-1563: the page that names the bundle.
ScrapeAntigravityPage ==
    /\ pc = "scrape"
    /\ ~scraper.is_xml_feed
    /\ _is_antigravity_url(scraper.url)
    /\ \E resp \in AntigravityPages(scraper, small) :
          /\ reqs' = <<Req("primary", scraper.url, resp)>>
          /\ IF Fetch(resp).exc = "none" /\ resp.body.bundle
             THEN /\ pc' = "bundle"
                  /\ UNCHANGED result
             ELSE Return(TryExcept(AndThen(Fetch(resp), Ok(<<>>)),
                                   <<"RequestException", "Exception">>))
    /\ UNCHANGED <<fn_arg, fn_ret, args, urls, idx, all_releases, scraper, found, driver>>

\* _scrape_antigravity_js, lines 1567-1626: the bundle.
ScrapeAntigravityBundle ==
    /\ pc = "bundle"
    /\ \E resp \in AntigravityBundles(scraper, small) :
          /\ reqs' = Append(reqs, Req("bundle", "https://antigravity.google/main.js", resp))
          /\ found' = IF Fetch(resp).exc = "none"
                      THEN AntigravityReleases(resp.body) ELSE <<>>
          /\ Return(AntigravityBundleOutcome(scraper, resp))
    /\ UNCHANGED <<fn_arg, fn_ret, args, urls, idx, all_releases, scraper, driver>>

\* scrape, line 615: _scrape_cloud_blog.
ScrapeCloudBlog ==
    /\ pc = "scrape"
    /\ ~scraper.is_xml_feed
    /\ ~_is_antigravity_url(scraper.url)
    /\ scraper.platform = "cloud_blog"
    /\ \E resp \in CloudBlogResponses(scraper, small) :
          /\ reqs' = <<Req("primary", scraper.url, resp)>>
          /\ found' = IF Fetch(resp).exc = "none" THEN CloudBlogReleases(resp.body) ELSE <<>>
          /\ Return(_scrape_cloud_blog(scraper, resp))
    /\ UNCHANGED <<fn_arg, fn_ret, args, urls, idx, all_releases, scraper, driver>>

\* scrape, line 617: _scrape_developers_blog, with the article pages its
\* glue-card loop requests.
ScrapeDevelopersBlog ==
    /\ pc = "scrape"
    /\ ~scraper.is_xml_feed
    /\ ~_is_antigravity_url(scraper.url)
    /\ scraper.platform = "developers_blog"
    /\ \E resp \in DevBlogResponses(scraper, small) :
          /\ reqs' = <<Req("primary", scraper.url, resp)>>
                \o (IF Fetch(resp).exc = "none"
                    THEN LET pages == DevBlogFetches(resp.body.cards, 1,
                                          {resp.body.posts[k].title :
                                              k \in 1..Len(resp.body.posts)})
                         IN  [k \in 1..Len(pages) |->
                                 Req("article", "https://developers.googleblog.com/post",
                                     pages[k])]
                    ELSE <<>>)
          /\ found' = IF Fetch(resp).exc = "none" THEN DevBlogReleases(resp.body) ELSE <<>>
          /\ Return(_scrape_developers_blog(scraper, resp))
    /\ UNCHANGED <<fn_arg, fn_ret, args, urls, idx, all_releases, scraper, driver>>

\* _scrape_medium_blog, lines 804-830: the imports and the browser.
ScrapeMediumStart ==
    /\ pc = "scrape"
    /\ ~scraper.is_xml_feed
    /\ ~_is_antigravity_url(scraper.url)
    /\ scraper.platform = "medium_blog"
    /\ \E o \in {"ImportError", "WebDriverException", "none"} :
          IF o = "none"
          THEN /\ driver' = "open"
               /\ pc' = "medium"
               /\ UNCHANGED result
          ELSE /\ driver' = "none"
               /\ Return(TryExcept(Raise(o), <<"Exception">>))
    /\ UNCHANGED <<fn_arg, fn_ret, args, urls, idx, all_releases, scraper, reqs, found>>

\* A mutant of the finally clause: the browser quits only after a page load.
QuitWhenLoaded(outcome) == IF outcome = "none" THEN "quit" ELSE "open"

\* try: ... finally: driver.quit() (lines 832-847): the browser quits whatever
\* the outcome of driver.get and of the wait was.
FinallyQuit(outcome) == "quit"

\* _scrape_medium_blog, lines 832-1002: driver.get raises, or the wait times
\* out, or the page is loaded; the browser quits; the articles of a loaded
\* page are extracted and filtered, and an error of that part is caught by
\* the except of line 997.
ScrapeMediumLoad ==
    /\ pc = "medium"
    /\ \E o \in {"WebDriverException", "TimeoutException", "none"} :
          /\ driver' = FinallyQuit(o)
          /\ IF o # "none"
             THEN /\ reqs' = <<Req("primary", scraper.url, Response(o, 0, EmptyBody))>>
                  /\ found' = <<>>
                  /\ Return(TryExcept(Raise(o), <<"Exception">>))
             ELSE \E body \in MediumPages(scraper), parse \in {"none", "AttributeError"} :
                     /\ reqs' = <<Req("primary", scraper.url, Response("none", 200, body))>>
                     /\ found' = IF parse = "none" THEN MediumReleases(body) ELSE <<>>
                     /\ Return(TryExcept(IF parse = "none"
                                         THEN BlogFilter(MediumReleases(body), scraper)
                                         ELSE Raise(parse),
                                         <<"Exception">>))
    /\ UNCHANGED <<fn_arg, fn_ret, args, urls, idx, all_releases, scraper>>

\* A mutant of the tagging: every group gets the service of the first source.
TaggedAsFirst(release, service_name) ==
    [date |-> release.date, items |-> release.items, service |-> urls[1].service_name]

\* release['service'] = service_name (line 2978)
Tagged(release, service_name) ==
    [date |-> release.date, items |-> release.items, service |-> service_name]

\* main, lines 2974-2985: the releases of the source join the combined list;
\* the loop goes on or ends.
MainCollect ==
    /\ pc = "returned"
    /\ all_releases' = all_releases
          \o [k \in 1..Len(result) |-> Tagged(result[k], urls[idx].service_name)]
    /\ idx' = idx + 1
    /\ pc' = IF idx < Len(urls) THEN "loop" ELSE "done"
    /\ UNCHANGED <<fn_arg, fn_ret, args, urls, scraper, reqs, found, result, driver>>

Next ==
    \/ MainArgs
    \/ MainConstruct
    \/ ScrapeXmlFeed
    \/ ScrapeFallback
    \/ ScrapeHtmlDirect
    \/ ScrapeAntigravityPage
    \/ ScrapeAntigravityBundle
    \/ ScrapeCloudBlog
    \/ ScrapeDevelopersBlog
    \/ ScrapeMediumStart
    \/ ScrapeMediumLoad
    \/ MainCollect

Spec == Init /\ [][Next]_vars

(***************************************************************************)
(* The classifier on its own                                               *)
(***************************************************************************)

MaxTextLen == 3

Vocabulary ==
    {"Security", "breaking", "change", "beta", "generally", "available",
     "deprecated", "fixed", "issue", "changed", ":", "announced", "api", "hello"}

RECURSIVE TextsUpTo(_)
TextsUpTo(n) ==
    IF n = 0 THEN {<<>>}
    ELSE LET shorter == TextsUpTo(n - 1)
         IN  shorter \cup {Append(t, w) : t \in shorter, w \in Vocabulary}

\* The calls of _categorize_item: a text alone, or an element (with or
\* without a hint class) and its text.
ClassifyInputs ==
    {[element |-> None, text |-> t] : t \in TextsUpTo(MaxTextLen) \cup {T_security}}
    \cup {[element |-> Some(Frag(c, t)), text |-> t] :
             c \in HINT_CLASSES \cup {"release-featured", "note", ""},
             t \in {<<>>, T_security, T_preview, T_plain, <<"(", "preview", ")">>}}

InitClassify ==
    /\ fn_arg \in ClassifyInputs
    /\ fn_ret = <<>>
    /\ pc = "call"
    /\ args = <<>>
    /\ urls = <<>>
    /\ idx = 0
    /\ all_releases = <<>>
    /\ scraper = <<>>
    /\ reqs = <<>>
    /\ found = <<>>
    /\ result = <<>>
    /\ driver = "none"

Classify ==
    /\ pc = "call"
    /\ fn_ret' = <<_categorize_item(fn_arg.element, fn_arg.text)>>
    /\ pc' = "ret"
    /\ UNCHANGED <<fn_arg, args, urls, idx, all_releases, scraper, reqs, found, result, driver>>

NextClassify == Classify

SpecClassify == InitClassify /\ [][NextClassify]_vars

(***************************************************************************)
(* The relative dates on their own                                         *)
(***************************************************************************)

MaxAgo == 3

\* The reference instants: in a leap year after and before February 29, on
\* February 29, at midnight and one minute after it on December 10, in
\* January, and in the last and the first minute of a year.
RelativeNows ==
    {datetime(2025, 1, 15, 630), datetime(2024, 3, 15, 0), datetime(2024, 2, 10, 45),
     datetime(2024, 2, 29, 720), datetime(2024, 12, 10, 0), datetime(2024, 12, 10, 1),
     datetime(2023, 12, 31, 1439), datetime(2024, 1, 1, 0)}

AgoWords ==
    {"d", "ds", "day", "days", "h", "hs", "hr", "hrs", "hour", "hours", "m", "ms",
     "min", "mins", "minute", "minutes", "w", "ws", "week", "weeks",
     "month", "months", "mo", "y", "year", "sec"}

RelativeStrings ==
    {AgoStr(n, u) : n \in 0..MaxAgo, u \in AgoWords}
    \cup {[kind |-> k] : k \in {"just_now", "now", "yesterday", "garbage", "empty"}}
    \cup {[kind |-> "month_day", month |-> m, day |-> d] : m \in 1..12, d \in 1..31}
    \cup {[kind |-> "with_year", year |-> y, month |-> m, day |-> d] :
             y \in {2023, 2024}, m \in {2, 12}, d \in {10, 29, 30}}

RelativeInputs == {[s |-> s, now |-> now] : s \in RelativeStrings, now \in RelativeNows}

InitRelative ==
    /\ fn_arg \in RelativeInputs
    /\ fn_ret = <<>>
    /\ pc = "call"
    /\ args = <<>>
    /\ urls = <<>>
    /\ idx = 0
    /\ all_releases = <<>>
    /\ scraper = <<>>
    /\ reqs = <<>>
    /\ found = <<>>
    /\ result = <<>>
    /\ driver = "none"

ParseRelative ==
    /\ pc = "call"
    /\ fn_ret' = <<_parse_relative_date(fn_arg.s, fn_arg.now)>>
    /\ pc' = "ret"
    /\ UNCHANGED <<fn_arg, args, urls, idx, all_releases, scraper, reqs, found, result, driver>>

NextRelative == ParseRelative

SpecRelative == InitRelative /\ [][NextRelative]_vars

(***************************************************************************)
(* The URLs of an item on their own                                        *)
(*                                                                         *)
(* A URL string is a record [host, path, pad]: host is the scheme and host *)
(* part ("" when the string has none), path the rest, pad whether the      *)
(* string starts with white space.                                         *)
(***************************************************************************)

Href(host, path) == [host |-> host, path |-> path, pad |-> FALSE]

H_empty   == Href("", "")
H_abs     == Href("https://cloud.google.com", "/run/docs")
H_http    == Href("http://example.com", "/run/docs")
H_root    == Href("", "/run/docs")
H_anchor  == Href("", "#fixed")
H_bare    == Href("", "docs/page.html")
H_png     == Href("", "/logo.png")
H_svg     == Href("https://cloud.google.com", "/icon.svg")
H_imgdir  == Href("https://cloud.google.com", "/img/banner")
H_imghost == Href("https://bp.blogspot.com", "/run/docs")
H_padded  == [host |-> "", path |-> "/run/docs", pad |-> TRUE]

\* str.strip()
strip(u) == [u EXCEPT !.pad = FALSE]

\* url.startswith('http'), url.startswith('/'), url.startswith('#')
StartsWithHttp(u) == ~u.pad /\ u.host # ""
StartsWithSlash(u) ==
    ~u.pad /\ u.host = "" /\ u.path \in {"/run/docs", "/logo.png", "/icon.svg", "/img/banner"}
StartsWithHash(u) == ~u.pad /\ u.host = "" /\ u.path = "#fixed"

\* base + url
Prepend(base, u) == [host |-> base, path |-> u.path, pad |-> FALSE]

\* [a.get('href') for a in el.find_all('a') if a.get('href')]
Hrefs(hrefs) == SelectSeq(hrefs, LAMBDA h : h # H_empty)

\* The image tests of _normalize_urls (lines 2153-2157) and of
\* _parse_xml_content (lines 1430, 1441).
IsImageUrl(u) == u.path \in {"/logo.png", "/icon.svg"} \/ u.host = "https://bp.blogspot.com"
IsImageHref(u) == u.path \in {"/logo.png", "/img/banner"} \/ u.host = "https://bp.blogspot.com"

\* One round of the loop of _normalize_urls (lines 2137-2160).
NormalizeStep(normalized, url) ==
    IF url = H_empty \/ StartsWithHash(strip(url)) THEN normalized
    ELSE IF StartsWithSlash(strip(url))
    THEN IF IsImageUrl(url) \/ InSeq(Prepend("https://cloud.google.com", url), normalized)
         THEN normalized
         ELSE Append(normalized, Prepend("https://cloud.google.com", url))
    ELSE IF ~StartsWithHttp(strip(url)) \/ IsImageUrl(url) \/ InSeq(strip(url), normalized)
    THEN normalized
    ELSE Append(normalized, strip(url))

\* _normalize_urls (lines 2134-2162)
RECURSIVE NormalizeFrom(_, _, _)
NormalizeFrom(normalized, list, k) ==
    IF k > Len(list) THEN normalized
    ELSE NormalizeFrom(NormalizeStep(normalized, list[k]), list, k + 1)

_normalize_urls(list) == NormalizeFrom(<<>>, list, 1)

\* all_urls of _parse_xml_content from the anchors of the content (lines
\* 1414-1431); the regex pass of lines 1434-1442 adds only strings that match
\* https?://, which the anchors of the samples already give.
AllUrlsStep(all_urls, href) ==
    IF href = H_empty THEN all_urls
    ELSE IF StartsWithSlash(strip(href))
    THEN IF IsImageHref(href) THEN all_urls
         ELSE Append(all_urls, Prepend("https://cloud.google.com", href))
    ELSE IF StartsWithHash(strip(href)) \/ ~StartsWithHttp(strip(href)) \/ IsImageHref(href)
    THEN all_urls
    ELSE Append(all_urls, strip(href))

RECURSIVE AllUrlsFrom(_, _, _)
AllUrlsFrom(all_urls, hrefs, k) ==
    IF k > Len(hrefs) THEN all_urls
    ELSE AllUrlsFrom(AllUrlsStep(all_urls, hrefs[k]), hrefs, k + 1)

AllUrls(hrefs) == AllUrlsFrom(<<>>, hrefs, 1)

\* list[:n]
Take(list, n) == SubSeq(list, 1, IF Len(list) < n THEN Len(list) ELSE n)

\* [entry_link] if entry_link else []
LinkList(entry_link) == IF entry_link = H_empty THEN <<>> ELSE <<entry_link>>

\* The closing loop of _parse_xml_content (lines 1525-1535).
EnsureUrls(item_urls, all_urls, entry_link) ==
    IF item_urls = <<>>
    THEN IF all_urls # <<>> THEN _normalize_urls(Take(all_urls, 5))
         ELSE LinkList(entry_link)
    ELSE _normalize_urls(item_urls)

\* _scrape_html, lines 1163-1167: the page URL for an item without URLs.
PageFallback(item_urls, url) == IF item_urls = <<>> THEN <<url>> ELSE item_urls

\* A mutant of the firebase walk: the links of an element are normalised.
FirebaseLinksNormalized(hrefs) == _normalize_urls(Hrefs(hrefs))

\* The links of an element of the firebase walk (lines 1858, 1868, 1879,
\* 1898): the href values as they stand.
FirebaseLinks(hrefs) == Hrefs(hrefs)

\* The link of a blog card: a leading '/' gets the host of the blog
\* (lines 661-663, 1023-1025, 1052-1054).
CardLink(base, href) ==
    IF href # H_empty /\ StartsWithSlash(href) THEN Prepend(base, href) ELSE href

\* The link of a Medium article (lines 873-879).
MediumLink(href) ==
    IF StartsWithSlash(href) THEN Prepend("https://medium.com", href)
    ELSE IF StartsWithHttp(href) THEN href
    ELSE H_empty

\* The URLs an extraction path attaches to an item whose element holds the
\* anchors hrefs, link being the link of the feed entry or of the card and
\* url the URL of the page.
ItemUrls(path, hrefs, link, url) ==
    CASE path \in {"firebase_li", "firebase_block"} ->
             PageFallback(FirebaseLinks(hrefs), url)
      [] path = "firebase_header" -> PageFallback(<<>>, url)
      [] path \in {"firebase_table", "structured", "unstructured"} ->
             PageFallback(_normalize_urls(Hrefs(hrefs)), url)
      [] path = "feed_blog" -> IF link = H_empty THEN <<>> ELSE <<strip(link)>>
      [] path = "feed_title" -> LinkList(strip(link))
      [] path = "feed_div" ->
             EnsureUrls(IF _normalize_urls(Hrefs(hrefs)) # <<>>
                        THEN _normalize_urls(Hrefs(hrefs))
                        ELSE _normalize_urls(Take(AllUrls(hrefs), 3)),
                        AllUrls(hrefs), strip(link))
      [] path = "feed_whole" ->
             EnsureUrls(IF AllUrls(hrefs) # <<>> THEN Take(AllUrls(hrefs), 5)
                        ELSE LinkList(strip(link)),
                        AllUrls(hrefs), strip(link))
      [] path \in {"feed_li", "feed_p"} ->
             EnsureUrls(_normalize_urls(Hrefs(hrefs)), AllUrls(hrefs), strip(link))
      [] path = "cloud_card" -> <<CardLink("https://cloud.google.com", link)>>
      [] path = "developers_post" -> <<CardLink("https://developers.googleblog.com", link)>>
      [] path = "medium_article" -> LinkList(MediumLink(link))
      [] path = "medium_card" ->
             <<IF StartsWithHttp(link) THEN link ELSE Prepend("https://medium.com", link)>>
      [] path = "antigravity" -> <<Href("https://antigravity.google", "/changelog")>>

MaxHrefs == 2

SampleHrefs ==
    {H_empty, H_abs, H_http, H_root, H_anchor, H_bare, H_png, H_svg, H_imgdir, H_imghost,
     H_padded}

ExtractionPaths ==
    {"firebase_li", "firebase_block", "firebase_header", "firebase_table", "structured",
     "unstructured", "feed_blog", "feed_title", "feed_div", "feed_whole", "feed_li",
     "feed_p", "cloud_card", "developers_post", "medium_article", "medium_card",
     "antigravity"}

RECURSIVE HrefLists(_)
HrefLists(n) ==
    IF n = 0 THEN {<<>>}
    ELSE HrefLists(n - 1) \cup {Append(l, h) : l \in HrefLists(n - 1), h \in SampleHrefs}

\* The calls: an extraction path, the anchors of the element, the link of
\* the entry or card, and the URL of the page, which requests has fetched.
UrlInputs ==
    [path : ExtractionPaths, hrefs : HrefLists(MaxHrefs),
     link : {H_empty, H_abs, H_root, H_bare},
     url : {Href("https://firebase.google.com", "/support/release-notes/ios")}]

InitUrls ==
    /\ fn_arg \in UrlInputs
    /\ fn_ret = <<>>
    /\ pc = "call"
    /\ args = <<>>
    /\ urls = <<>>
    /\ idx = 0
    /\ all_releases = <<>>
    /\ scraper = <<>>
    /\ reqs = <<>>
    /\ found = <<>>
    /\ result = <<>>
    /\ driver = "none"

AttachUrls ==
    /\ pc = "call"
    /\ fn_ret' = <<ItemUrls(fn_arg.path, fn_arg.hrefs, fn_arg.link, fn_arg.url)>>
    /\ pc' = "ret"
    /\ UNCHANGED <<fn_arg, args, urls, idx, all_releases, scraper, reqs, found, result, driver>>

NextUrls == AttachUrls

SpecUrls == InitUrls /\ [][NextUrls]_vars

(***************************************************************************)
(* Properties                                                              *)
(***************************************************************************)

\* What the properties read off a response: it is a failure when the
\* transport raised or the status is an error status.
RespFailed(resp) == resp.exc # "none" \/ resp.status >= 400
RespNotFound(resp) == resp.exc = "none" /\ resp.status = 404

HasFallback(self) == self.service_name \in DOMAIN SERVICE_HTML_FALLBACKS

\* The groups of `groups` inside the range of self, with the items the
\* allow-list keeps, the groups left without items removed.
DateInRange(g, self) ==
    /\ ~IsNone(g.date)
    /\ Val(g.date).t >= self.cutoff_date
    /\ Val(g.date).t <= self.end_date

Allowed(it, self) == IsNone(self.categories) \/ it.category \in Val(self.categories)

ExpectedAfterFilters(groups, self) ==
    LET dated == SelectSeq(groups, LAMBDA g : DateInRange(g, self))
        cut == [k \in 1..Len(dated) |->
                   Group(dated[k].date, SelectSeq(dated[k].items, LAMBDA it : Allowed(it, self)))]
    IN  SelectSeq(cut, LAMBDA g : g.items # <<>>)

RolesCount(role) == Cardinality({k \in 1..Len(reqs) : reqs[k].role = role})

\* C1 (as amended): for every source whose primary URL is a feed and that has
\* a registered fallback URL, when the primary GET fails with a 404, scrape
\* issues exactly one GET, against the fallback URL, and when that GET
\* succeeds it returns the groups parsed from the fallback page, after the
\* date and category filters.
C1_FeedNotFoundFallsBack ==
    (pc = "returned" /\ Len(reqs) >= 1 /\ scraper.is_xml_feed /\ HasFallback(scraper)
        /\ RespNotFound(reqs[1].resp))
    => /\ Len(reqs) = 2
       /\ reqs[2].role = "fallback"
       /\ reqs[2].url = SERVICE_HTML_FALLBACKS[scraper.service_name]
       /\ ~RespFailed(reqs[2].resp) =>
             /\ found = Extracted(HtmlReleases(scraper, reqs[2].url, reqs[2].resp.body))
             /\ result = ExpectedAfterFilters(found, scraper)

C1_Witness ==
    /\ pc = "returned"
    /\ Len(reqs) = 2
    /\ RespNotFound(reqs[1].resp)
    /\ reqs[2].role = "fallback"
    /\ ~RespFailed(reqs[2].resp)
    /\ result # <<>>

\* C1 as stated: the same for every source with a registered fallback URL,
\* whatever its primary URL is.
C1_AsStated ==
    (pc = "returned" /\ Len(reqs) >= 1 /\ HasFallback(scraper)
        /\ reqs[1].role = "primary" /\ RespNotFound(reqs[1].resp))
    => RolesCount("fallback") = 1

\* C2: when the primary request fails in any other way (a timeout, a
\* connection error, a 5xx, a malformed feed, a 404 of a source that does not
\* fall back), scrape returns the empty list and issues no fallback GET.
C2_OtherFailureIsEmpty ==
    (pc = "returned" /\ Len(reqs) >= 1
        /\ \/ RespFailed(reqs[1].resp)
           \/ scraper.is_xml_feed /\ ~reqs[1].resp.body.wellformed
        /\ ~(scraper.is_xml_feed /\ HasFallback(scraper) /\ RespNotFound(reqs[1].resp)))
    => /\ result = <<>>
       /\ Len(reqs) = 1
       /\ RolesCount("fallback") = 0

C2_Witness ==
    /\ pc = "returned"
    /\ scraper.is_xml_feed
    /\ HasFallback(scraper)
    /\ Len(reqs) = 1
    /\ reqs[1].resp.status = 500
    /\ result = <<>>

\* The source failed: its primary request failed and no fallback request
\* succeeded.
SourceFailed ==
    /\ Len(reqs) >= 1
    /\ RespFailed(reqs[1].resp)
    /\ \A k \in 1..Len(reqs) : reqs[k].role = "fallback" => RespFailed(reqs[k].resp)

\* C3: scrape never raises on any dispatch path, and in a run over several
\* sources the groups of a source join the combined list behind the groups
\* of the sources before it, which stay: a source that fails contributes no
\* group and takes none away.
C3_ScrapeNeverRaises ==
    /\ [](pc # "crashed")
    /\ [][pc = "returned" =>
            /\ Len(all_releases') = Len(all_releases) + Len(result)
            /\ SubSeq(all_releases', 1, Len(all_releases)) = all_releases
            /\ \A k \in 1..Len(result) :
                  /\ all_releases'[Len(all_releases) + k].items = result[k].items
                  /\ all_releases'[Len(all_releases) + k].date = result[k].date
                  /\ all_releases'[Len(all_releases) + k].service = urls[idx].service_name
            /\ (SourceFailed => result = <<>>)]_vars

C3_Witness ==
    /\ pc = "done"
    /\ Len(urls) > 1
    /\ SourceFailed
    /\ result = <<>>
    /\ all_releases # <<>>

\* C4: in one scrape the primary URL is requested at most once and the
\* fallback URL at most once; when the fallback request fails (any status,
\* 404 too) the result is empty and no further request follows.
C4_AtMostOnceEach ==
    /\ RolesCount("primary") <= 1
    /\ RolesCount("fallback") <= 1
    /\ \A k \in 1..Len(reqs) :
          (reqs[k].role = "fallback" /\ RespFailed(reqs[k].resp) /\ pc = "returned")
          => (result = <<>> /\ k = Len(reqs))

C4_Witness ==
    /\ pc = "returned"
    /\ Len(reqs) = 2
    /\ reqs[2].role = "fallback"
    /\ RespNotFound(reqs[2].resp)
    /\ result = <<>>

\* C5: every item of every group, on every path, carries a category of
\* VALID_CATEGORIES.
C5_CategoriesValid ==
    /\ \A k \in 1..Len(found) : \A j \in 1..Len(found[k].items) :
          found[k].items[j].category \in VALID_CATEGORIES
    /\ \A k \in 1..Len(result) : \A j \in 1..Len(result[k].items) :
          result[k].items[j].category \in VALID_CATEGORIES
    /\ \A k \in 1..Len(all_releases) : \A j \in 1..Len(all_releases[k].items) :
          all_releases[k].items[j].category \in VALID_CATEGORIES

C5_Witness ==
    /\ pc = "done"
    /\ \E k \in 1..Len(all_releases) : \E j \in 1..Len(all_releases[k].items) :
          all_releases[k].items[j].category = "update"
    /\ \E k \in 1..Len(all_releases) : \E j \in 1..Len(all_releases[k].items) :
          all_releases[k].items[j].category = "security"

\* A group of the scrape's result that equals g.
InResult(g) == \E k \in 1..Len(result) : result[k] = g

\* The scrape got its page: the primary request (the fallback request after
\* a feed's 404) succeeded.
PageFetched ==
    /\ pc = "returned"
    /\ Len(reqs) >= 1
    /\ \/ ~RespFailed(reqs[1].resp)
       \/ Len(reqs) = 2 /\ reqs[2].role = "fallback" /\ ~RespFailed(reqs[2].resp)

\* C6 as stated: with no category list, a dated group that was extracted is
\* in the result exactly when cutoff_date <= date <= end_date, both ends
\* included.
C6_AsStated ==
    (PageFetched /\ IsNone(scraper.categories))
    => \A k \in 1..Len(found) :
          ~IsNone(found[k].date) => (InResult(found[k]) <=> DateInRange(found[k], scraper))

\* C6 where it holds: the same, for the groups whose date carries no tzinfo
\* when no extracted group of the scrape carries one.
C6_NaiveDatesOnly ==
    (PageFetched /\ IsNone(scraper.categories)
        /\ \A k \in 1..Len(found) : ~IsNone(found[k].date) => ~Val(found[k].date).aware)
    => \A k \in 1..Len(found) :
          ~IsNone(found[k].date) => (InResult(found[k]) <=> DateInRange(found[k], scraper))

\* Strict mode, as the claims name it: a day count or a start date was given.
StrictAsked == ~IsNone(args.days) \/ ~IsNone(args.start_date)

\* C7 as stated: strict mode is on exactly when a day count or an explicit
\* start date was given; an undated group that was extracted is in the result
\* when strict mode is off and is not when it is on.
C7_AsStated ==
    PageFetched
    => /\ strict_mode(scraper) <=> StrictAsked
       /\ \A k \in 1..Len(found) :
             IsNone(found[k].date) => (InResult(found[k]) <=> ~StrictAsked)

\* C7 where it holds: the same, when no extracted group of the scrape carries
\* a date with a tzinfo.
C7_NaiveDatesOnly ==
    (PageFetched
        /\ \A k \in 1..Len(found) : ~IsNone(found[k].date) => ~Val(found[k].date).aware)
    => /\ strict_mode(scraper) <=> StrictAsked
       /\ \A k \in 1..Len(found) :
             IsNone(found[k].date) => (InResult(found[k]) <=> ~StrictAsked)

\* What the properties read off a date string of a feed: it parses.
Parses(date) == ~IsNone(date) /\ Val(date).kind \in {"iso_z", "offset", "date", "embedded"}

FeedParsed ==
    /\ pc = "returned"
    /\ scraper.is_xml_feed
    /\ Len(reqs) = 1
    /\ ~RespFailed(reqs[1].resp)
    /\ reqs[1].resp.body.wellformed

C9_AsStated ==
    (PageFetched /\ ~IsNone(scraper.categories))
    => /\ \A k \in 1..Len(result) :
             /\ result[k].items # <<>>
             /\ \A j \in 1..Len(result[k].items) :
                   result[k].items[j].category \in Val(scraper.categories)
       /\ \A k \in 1..Len(found) :
             (DateInRange(found[k], scraper)
                 /\ \E j \in 1..Len(found[k].items) :
                       found[k].items[j].category \in Val(scraper.categories))
             => \E i \in 1..Len(result) : result[i].date = found[k].date

\* C9 where it holds: the same on the feed, page and script paths.
C9_NotOnBlogs ==
    (PageFetched /\ ~IsNone(scraper.categories)
        /\ scraper.platform \notin {"cloud_blog", "developers_blog", "medium_blog"})
    => /\ \A k \in 1..Len(result) :
             /\ result[k].items # <<>>
             /\ \A j \in 1..Len(result[k].items) :
                   result[k].items[j].category \in Val(scraper.categories)
       /\ \A k \in 1..Len(found) :
             (DateInRange(found[k], scraper)
                 /\ \E j \in 1..Len(found[k].items) :
                       found[k].items[j].category \in Val(scraper.categories))
             => \E i \in 1..Len(result) : result[i].date = found[k].date

\* The keyword lists in the order the claim gives, with their categories.
ClaimedOrder ==
    <<[category |-> "security", keywords |-> KW_security],
      [category |-> "breaking", keywords |-> KW_breaking],
      [category |-> "public-preview", keywords |-> KW_preview],
      [category |-> "ga", keywords |-> KW_ga],
      [category |-> "deprecated", keywords |-> KW_deprecated],
      [category |-> "fixed", keywords |-> KW_fixed],
      [category |-> "issue", keywords |-> KW_issue],
      [category |-> "change", keywords |-> KW_change],
      [category |-> "announcement", keywords |-> KW_announcement],
      [category |-> "libraries", keywords |-> KW_libraries]>>

Matching(text_lower) ==
    {k \in 1..Len(ClaimedOrder) : any_keyword(text_lower, ClaimedOrder[k].keywords)}

FirstMatching(text_lower) ==
    IF Matching(text_lower) = {} THEN "update"
    ELSE ClaimedOrder[CHOOSE k \in Matching(text_lower) :
                          \A j \in Matching(text_lower) : k <= j].category

NoHint(arg) == IsNone(arg.element) \/ ClassParts(Val(arg.element).class) = {}

\* C10: with no structural hint the classifier returns the category of the
\* first keyword group that matches the lower-cased text, in the order
\* security, breaking, public-preview, ga, deprecated, fixed, issue, change,
\* announcement, libraries, and "update" when none matches; a text with a
\* security keyword and a breaking keyword is labelled security.
C10_FirstMatchingGroup ==
    (pc = "ret" /\ NoHint(fn_arg))
    => /\ fn_ret = <<FirstMatching(lower(fn_arg.text))>>
       /\ (any_keyword(lower(fn_arg.text), KW_security)
              /\ any_keyword(lower(fn_arg.text), KW_breaking)) => fn_ret = <<"security">>

C10_Witness ==
    /\ pc = "ret"
    /\ IsNone(fn_arg.element)
    /\ fn_arg.text = T_security
    /\ fn_ret = <<"security">>

\* The category the claim gives each hint class.
ClaimedHint ==
    [c \in HINT_CLASSES \ {"release-feature"} |->
        CASE c = "release-changed"      -> "change"
          [] c = "release-announcement" -> "announcement"
          [] c = "release-breaking"     -> "breaking"
          [] c = "release-issue"        -> "issue"]

PreviewMarked(t) ==
    Contains(t, <<"(", "preview", ")">>) \/ Contains(t, <<"(", "Preview", ")">>)

ClaimedDateElem(entry) ==
    CASE ~IsNone(entry.pubDate)   -> entry.pubDate
      [] ~IsNone(entry.published) -> entry.published
      [] OTHER                    -> entry.updated

OneEntryFeed == FeedParsed /\ Len(reqs[1].resp.body.entries) = 1

ResultItems == {<<k, j>> : k \in 1..Len(result), j \in 1..10} \cap
               {p \in (1..Len(result)) \X (1..10) : p[2] <= Len(result[p[1]].items)}

\* The scrape returned from _scrape_html: the last request is the page (or
\* the fallback page) of a source that is no script site and no blog.
HtmlScraped ==
    /\ pc = "returned"
    /\ Len(reqs) >= 1
    /\ \/ reqs[Len(reqs)].role = "fallback"
       \/ /\ reqs[Len(reqs)].role = "primary"
          /\ ~scraper.is_xml_feed
          /\ ~_is_antigravity_url(scraper.url)
          /\ scraper.platform \in DOMAIN PLATFORM_SELECTORS

\* C13 as stated: no two items of the groups the scrape of an HTML page
\* returns have the same markup: an element that more than one header pass
\* or strategy reaches is in the output once.
C13_AsStated ==
    HtmlScraped
    => \A p, q \in ResultItems :
          result[p[1]].items[p[2]].text = result[q[1]].items[q[2]].text => p = q

\* The month-day strings whose day exists in the year of now, and in the
\* year before when the day of this year is later than now.
MonthDayCall ==
    /\ pc = "ret"
    /\ fn_arg.s.kind = "month_day"
    /\ IsValidDate(YearOf(fn_arg.now), fn_arg.s.month, fn_arg.s.day)
    /\ (datetime(YearOf(fn_arg.now), fn_arg.s.month, fn_arg.s.day, 0) > fn_arg.now
          => IsValidDate(YearOf(fn_arg.now) - 1, fn_arg.s.month, fn_arg.s.day))

\* C14 as stated: a month-day string resolves to that month and day of the
\* current year, or of the year before when that is later than now, and the
\* result is never later than now.
C14_AsStated ==
    MonthDayCall
    => /\ fn_ret = <<Some(IF datetime(YearOf(fn_arg.now), fn_arg.s.month, fn_arg.s.day, 0)
                                > fn_arg.now
                           THEN datetime(YearOf(fn_arg.now) - 1,
                                         fn_arg.s.month, fn_arg.s.day, 0)
                           ELSE datetime(YearOf(fn_arg.now),
                                         fn_arg.s.month, fn_arg.s.day, 0))>>
       /\ Val(fn_ret[1]) <= fn_arg.now

\* C14 where it holds: the same for every month and day but February 29.
C14_ExceptLeapDay ==
    (MonthDayCall /\ ~(fn_arg.s.month = 2 /\ fn_arg.s.day = 29))
    => /\ fn_ret = <<Some(IF datetime(YearOf(fn_arg.now), fn_arg.s.month, fn_arg.s.day, 0)
                                > fn_arg.now
                           THEN datetime(YearOf(fn_arg.now) - 1,
                                         fn_arg.s.month, fn_arg.s.day, 0)
                           ELSE datetime(YearOf(fn_arg.now),
                                         fn_arg.s.month, fn_arg.s.day, 0))>>
       /\ Val(fn_ret[1]) <= fn_arg.now

\* The unit words the claim names, with the minutes of each unit.
ClaimedUnits ==
    [u \in {"m", "min", "mins", "minute", "minutes", "h", "hr", "hrs", "hour", "hours",
            "d", "day", "days", "w", "week", "weeks"} |->
        CASE u \in {"m", "min", "mins", "minute", "minutes"} -> 1
          [] u \in {"h", "hr", "hrs", "hour", "hours"}       -> 60
          [] u \in {"d", "day", "days"}                      -> 1440
          [] u \in {"w", "week", "weeks"}                    -> 10080]

C16_SessionClosed ==
    /\ driver = "open" => pc = "medium"
    /\ (pc \in {"returned", "crashed"} /\ scraper.platform = "medium_blog" /\ reqs # <<>>)
          => driver = "quit"

\* driver.get raised after the session was created, and scrape has returned.
C16_Witness ==
    /\ pc = "returned"
    /\ scraper.platform = "medium_blog"
    /\ reqs # <<>>
    /\ reqs[1].resp.exc = "WebDriverException"
    /\ driver = "quit"

\* The URLs of the returned item that do not start with http.
NotAbsolute(item_urls) == SelectSeq(item_urls, LAMBDA u : ~StartsWithHttp(u))

\* C17 as stated: on every extraction path every URL attached to an item
\* starts with http.
C17_AsStated ==
    pc = "ret" => NotAbsolute(fn_ret[1]) = <<>>

\* C17 where it holds: the paths that pass every link through _normalize_urls
\* or build it from a fixed host attach absolute URLs only.
C17_NormalizedPaths ==
    (/\ pc = "ret"
     /\ fn_arg.path \in {"firebase_table", "firebase_header", "structured", "unstructured",
                         "feed_whole", "medium_article", "medium_card", "antigravity"})
    => NotAbsolute(fn_ret[1]) = <<>>

\* The groups of the combined list that carry the tag service_name.
OfService(releases, service_name) ==
    SelectSeq(releases, LAMBDA g : g.service = service_name)

\* The places of the sources of the run that have been collected.
Collected == 1..(IF pc \in {"main", "done"} THEN Len(urls) ELSE idx - 1)

\* C18: the scrape of a source starts from a scraper built from its own URL
\* and the arguments of the run alone, with nothing left of the source
\* before it; the scrape leaves the combined list alone; collecting appends
\* the groups of the source, tagged with its service, after the groups of the
\* sources before it and changes none of those.
C18_SourcesIndependent ==
    /\ [](pc = "scrape"
            => /\ scraper = __init__(urls[idx].url, args.months, args.days, args.start_date,
                                     args.end_date, args.category, urls[idx].service_name)
               /\ reqs = <<>> /\ found = <<>> /\ result = <<>> /\ driver = "none")
    /\ [](\A i \in 1..Len(all_releases) :
            \E k \in Collected : all_releases[i].service = urls[k].service_name)
    /\ [][pc \notin {"returned", "main"} => all_releases' = all_releases]_vars
    /\ [][pc = "returned"
            => /\ all_releases' = all_releases
                      \o [k \in 1..Len(result) |->
                             [date |-> result[k].date, items |-> result[k].items,
                              service |-> urls[idx].service_name]]
               /\ OfService(all_releases, urls[idx].service_name) = <<>>]_vars

\* A run over two sources has ended with groups of both in the combined
\* list, those of the first source first.
C18_Witness ==
    /\ pc = "done"
    /\ Len(urls) = 2
    /\ Len(all_releases) >= 2
    /\ all_releases[1].service = urls[1].service_name
    /\ all_releases[Len(all_releases)].service = urls[2].service_name

\* An HTML page has been fetched and its groups extracted.
HtmlExtracted ==
    /\ HtmlScraped
    /\ ~RespFailed(reqs[Len(reqs)].resp)
    /\ scraper.platform \in {"firebase", "google_cloud", "generic"}

PageNodes == reqs[Len(reqs)].resp.body.nodes

FirstOf(a, b, c) == IF a # <<>> THEN a ELSE IF b # <<>> THEN b ELSE c

\* C19 as stated: the groups of a page are those of the first of the
\* strategies structured, table-based, unstructured that yields any.
C19_AsStated ==
    HtmlExtracted
    => found = FirstOf(IF scraper.platform = "firebase"
                       THEN FirebaseHeaderGroups(PageNodes, scraper.platform)
                       ELSE _parse_structured_releases(PageNodes, scraper.platform),
                       FirebaseRowGroups(PageNodes, scraper.platform),
                       _parse_unstructured_releases(PageNodes, scraper.platform,
                                                    scraper.cutoff_date))

\* C19, amended: on a firebase page the header passes and the table rows both
\* contribute, the rows after the headers; on another page the structured
\* strategy is the only first strategy and table rows are no strategy; the
\* unstructured strategy contributes only when what ran before it yielded no
\* group, and then it alone.
C19_UnstructuredOnlyWhenEmpty ==
    HtmlExtracted
    => /\ scraper.platform = "firebase"
          => /\ (FirebaseHeaderGroups(PageNodes, "firebase") # <<>>
                     \/ FirebaseRowGroups(PageNodes, "firebase") # <<>>)
                  => found = FirebaseHeaderGroups(PageNodes, "firebase")
                               \o FirebaseRowGroups(PageNodes, "firebase")
             /\ (FirebaseHeaderGroups(PageNodes, "firebase") = <<>>
                     /\ FirebaseRowGroups(PageNodes, "firebase") = <<>>)
                  => found = _parse_unstructured_releases(PageNodes, "firebase",
                                                          scraper.cutoff_date)
       /\ scraper.platform # "firebase"
          => found = IF _parse_structured_releases(PageNodes, scraper.platform) # <<>>
                     THEN _parse_structured_releases(PageNodes, scraper.platform)
                     ELSE _parse_unstructured_releases(PageNodes, scraper.platform,
                                                       scraper.cutoff_date)

\* A firebase page whose dated header and dated table row both gave a group.
C19_Witness ==
    /\ HtmlExtracted
    /\ scraper.platform = "firebase"
    /\ FirebaseHeaderGroups(PageNodes, "firebase") # <<>>
    /\ FirebaseRowGroups(PageNodes, "firebase") # <<>>
    /\ Len(found) = 2

\* A feed of one dated entry with a content, on a feed that is no blog feed.
FullContentEntry ==
    /\ OneEntryFeed
    /\ ~_is_blog_feed(scraper.url)
    /\ Parses(date_elem(reqs[1].resp.body.entries[1]))
    /\ reqs[1].resp.body.entries[1].frags # <<>>

EntryContent == reqs[1].resp.body.entries[1].frags

\* The texts of the items extracted from the entry.
FoundTexts ==
    IF found = <<>> THEN <<>> ELSE [j \in 1..Len(found[1].items) |-> found[1].items[j].text]

\* The texts longer than min of the elements of the content that are of the
\* kind named: "hint" for the divs with a hint class, else a tag name.
StepTexts(kind, min) ==
    LET els == SelectSeq(EntryContent,
                   LAMBDA f : /\ f.text # <<>>
                              /\ f.len > min
                              /\ IF kind = "hint"
                                 THEN f.name = "div" /\ f.class \in HINT_CLASSES
                                 ELSE f.name = kind)
    IN  [i \in 1..Len(els) |-> els[i].text]

WholeBodyTexts ==
    IF ContentLen(EntryContent) > 10 THEN <<ContentText(EntryContent)>> ELSE <<>>

\* C20 as stated: the items are those of the first non-empty step of list
\* items, category-marked divs, paragraphs, whole body.
C20_AsStated ==
    FullContentEntry
    => FoundTexts = IF StepTexts("li", 5) # <<>> THEN StepTexts("li", 5)
                    ELSE IF StepTexts("hint", 5) # <<>> THEN StepTexts("hint", 5)
                    ELSE IF StepTexts("p", 10) # <<>> THEN StepTexts("p", 10)
                    ELSE WholeBodyTexts

\* C20, amended: the ladder is category-marked divs, then the whole body as
\* one item when the content has a header or more than 200 characters, then
\* list items, then paragraphs, then the whole body; the items come from the
\* first step that yields any, so a content with list items and
\* category-marked divs gives the divs.
C20_DivsFirst ==
    FullContentEntry
    => FoundTexts = IF StepTexts("hint", 5) # <<>> THEN StepTexts("hint", 5)
                    ELSE IF (\/ \E i \in 1..Len(EntryContent) :
                                   EntryContent[i].name \in {"h1", "h2", "h3", "h4"}
                             \/ ContentLen(EntryContent) > 200)
                            /\ WholeBodyTexts # <<>>
                    THEN WholeBodyTexts
                    ELSE IF StepTexts("li", 5) # <<>> THEN StepTexts("li", 5)
                    ELSE IF StepTexts("p", 10) # <<>> THEN StepTexts("p", 10)
                    ELSE WholeBodyTexts

\* The content holds a list item and a category-marked div, both long
\* enough, and the one item is the div.
C20_Witness ==
    /\ FullContentEntry
    /\ StepTexts("li", 5) # <<>>
    /\ StepTexts("hint", 5) # <<>>
    /\ FoundTexts = StepTexts("hint", 5)
    /\ Len(result) = 1

\* A header of equal or higher level than the header named.
EndsSection(node, header_name) ==
    node.name \in {"h1", "h2", "h3", "h4"} /\ NameRank(node.name) <= NameRank(header_name)

\* The items of the siblings from j on, up to the first header of equal or
\* higher level; firebase tells which rule gives the items of a sibling.
RECURSIVE ClaimedWalk(_, _, _, _)
ClaimedWalk(nodes, j, header_name, firebase) ==
    IF j > Len(nodes) \/ EndsSection(nodes[j], header_name) THEN <<>>
    ELSE (IF firebase THEN FirebaseItemsOf(nodes[j]) ELSE StructuredItemsOf(nodes[j]))
         \o ClaimedWalk(nodes, j + 1, header_name, firebase)

\* The dated headers of the page that the structured strategy visits.
DatedHeaders ==
    {i \in 1..Len(PageNodes) :
        /\ InSeq(PageNodes[i].name, PLATFORM_SELECTORS[scraper.platform].date_headers)
        /\ ~IsNone(DateInText(PageNodes[i].date, scraper.platform))}

\* C21 as stated: the items the walk collects for a dated header are those
\* of the siblings up to the first later header of equal or higher level.
C21_AsStated ==
    HtmlExtracted
    => \A i \in DatedHeaders :
          IF scraper.platform = "firebase"
          THEN FirebaseWalk(PageNodes, i + 1, PageNodes[i].name)
                  = ClaimedWalk(PageNodes, i + 1, PageNodes[i].name, TRUE)
          ELSE StructuredWalk(PageNodes, i + 1, PageNodes[i].name,
                              PLATFORM_SELECTORS[scraper.platform].date_headers)
                  = ClaimedWalk(PageNodes, i + 1, PageNodes[i].name, FALSE)

\* C21 where it holds: when no h1 and no header above the visited one
\* follows it, the walk ends where the claim says.
C21_NoHigherHeaderAfter ==
    HtmlExtracted
    => \A i \in DatedHeaders :
          (\A j \in (i + 1)..Len(PageNodes) :
               ~(EndsSection(PageNodes[j], PageNodes[i].name)
                    /\ PageNodes[j].name # PageNodes[i].name))
          => IF scraper.platform = "firebase"
             THEN FirebaseWalk(PageNodes, i + 1, PageNodes[i].name)
                     = ClaimedWalk(PageNodes, i + 1, PageNodes[i].name, TRUE)
             ELSE StructuredWalk(PageNodes, i + 1, PageNodes[i].name,
                                 PLATFORM_SELECTORS[scraper.platform].date_headers)
                     = ClaimedWalk(PageNodes, i + 1, PageNodes[i].name, FALSE)

\* C22 as stated: every dated group that reaches the comparison with
\* cutoff_date and end_date carries a naive date, and no source returns
\* nothing because an aware date met a naive bound.
C22_AsStated ==
    pc = "returned"
    => \A k \in 1..Len(found) : ~IsNone(found[k].date) => ~Val(found[k].date).aware

\* C22 where it holds: off the developers blog every date is naive.
C22_NotOnDevelopersBlog ==
    (pc = "returned" /\ scraper.platform # "developers_blog")
    => \A k \in 1..Len(found) : ~IsNone(found[k].date) => ~Val(found[k].date).aware

\* The embedded-script extractor has returned.
ScriptReturned ==
    pc = "returned" /\ ~scraper.is_xml_feed /\ _is_antigravity_url(scraper.url)

\* The bundle has been fetched.
BundleFetched ==
    ScriptReturned /\ Len(reqs) = 2 /\ ~RespFailed(reqs[2].resp)

BundleSections == reqs[2].resp.body.sections

\* The sections whose version and date the direct scan finds and parses.
DirectMatches ==
    {k \in 1..Len(BundleSections) :
        /\ BundleSections[k].date.kind \in {"abbr", "long"}
        /\ ~IsNone(_parse_antigravity_date(BundleSections[k].date))}

C24_GroupsHaveItems ==
    /\ pc = "returned" => \A k \in 1..Len(result) : result[k].items # <<>>
    /\ \A k \in 1..Len(all_releases) : all_releases[k].items # <<>>

\* The allow-list left a group of the source without items: the group is
\* extracted and in range, and it is not returned.
C24_Witness ==
    /\ pc = "returned"
    /\ ~IsNone(scraper.categories)
    /\ Len(found) = 2
    /\ \A k \in 1..2 : DateInRange(found[k], scraper)
    /\ Len(result) = 1
    /\ result[1].items # <<>>

(***************************************************************************)
(* C25: the dispatch of scrape.                                            *)
(***************************************************************************)

\* The handler the first matching rule names for a URL, rule by rule.
HasFeedMark(url) ==
    \/ UrlHas(url, ".xml$") \/ UrlHas(url, ".atom$") \/ UrlHas(url, "/feeds/")
    \/ UrlHas(url, "medium.com/feed/")
    \/ UrlHas(url, "feeds.feedburner.com") \/ UrlHas(url, "feedburner.google.com")

FirstMatchingRule(url) ==
    IF UrlHas(url, "antigravity.google") THEN "script"
    ELSE IF HasFeedMark(url) THEN "feed"
    ELSE IF UrlHas(url, "cloud.google.com/blog") THEN "cloud_blog"
    ELSE IF UrlHas(url, "developers.googleblog.com") THEN "developers_blog"
    ELSE IF UrlHas(url, "medium.com/google-cloud") THEN "medium_blog"
    ELSE "html"

\* C25: the first step of scrape is the handler of the first matching rule:
\* the embedded-script handler for a URL of its host whatever the suffix,
\* else the feed parser for a feed URL, else the cloud blog, the developers
\* blog, the Medium blog handler, and the generic HTML handler last.
C25_FirstMatchingRule ==
    [][/\ ScrapeXmlFeed => FirstMatchingRule(scraper.url) = "feed"
       /\ ScrapeAntigravityPage => FirstMatchingRule(scraper.url) = "script"
       /\ ScrapeCloudBlog => FirstMatchingRule(scraper.url) = "cloud_blog"
       /\ ScrapeDevelopersBlog => FirstMatchingRule(scraper.url) = "developers_blog"
       /\ ScrapeMediumStart => FirstMatchingRule(scraper.url) = "medium_blog"
       /\ ScrapeHtmlDirect => FirstMatchingRule(scraper.url) = "html"]_vars

\* The embedded-script handler has taken a URL with a feed suffix.
C25_Witness ==
    /\ pc = "bundle"
    /\ scraper.url = U_antigravity_feed
    /\ ~scraper.is_xml_feed

(***************************************************************************)
(* _extract_js_array on its own                                            *)
(*                                                                         *)
(* A string is a sequence of characters; only "[" and "]" are looked at,   *)
(* a quote or a letter is any other character.                             *)
(***************************************************************************)

MaxJsLen == 5

JsChars == {"[", "]", "q", "x"}

JsStrings == UNION {[1..n -> JsChars] : n \in 0..MaxJsLen}

\* The loop of _extract_js_array from the i-th character on.
RECURSIVE ExtractFrom(_, _, _, _)
ExtractFrom(js_str, i, depth, start) ==
    IF i > Len(js_str) THEN js_str
    ELSE IF js_str[i] = "["
         THEN ExtractFrom(js_str, i + 1, depth + 1, IF depth = 0 THEN i ELSE start)
    ELSE IF js_str[i] = "]"
         THEN IF depth - 1 = 0 THEN SubSeq(js_str, start, i)
              ELSE ExtractFrom(js_str, i + 1, depth - 1, start)
    ELSE ExtractFrom(js_str, i + 1, depth, start)

\* A mutant of _extract_js_array: the first "]" ends the array.
ExtractJsArrayFirstClose(js_str) ==
    IF \E i \in 1..Len(js_str) : js_str[i] = "]"
    THEN SubSeq(js_str, 1, CHOOSE i \in 1..Len(js_str) :
                              /\ js_str[i] = "]"
                              /\ \A k \in 1..(i - 1) : js_str[k] # "]")
    ELSE js_str

_extract_js_array(js_str) == ExtractFrom(js_str, 1, 0, 1)

InitJsArray ==
    /\ fn_arg \in JsStrings
    /\ fn_ret = <<>>
    /\ pc = "call"
    /\ args = <<>>
    /\ urls = <<>>
    /\ idx = 0
    /\ all_releases = <<>>
    /\ scraper = <<>>
    /\ reqs = <<>>
    /\ found = <<>>
    /\ result = <<>>
    /\ driver = "none"

ExtractJsArray ==
    /\ pc = "call"
    /\ fn_ret' = <<_extract_js_array(fn_arg)>>
    /\ pc' = "ret"
    /\ UNCHANGED <<fn_arg, args, urls, idx, all_releases, scraper, reqs, found, result, driver>>

SpecJsArray == InitJsArray /\ [][ExtractJsArray]_vars

\* The number of characters c among the first n of str.
CountOf(str, c, n) == Cardinality({k \in 1..n : str[k] = c})

\* Every "[" of the first n characters is closed by a "]" after it.
Balanced(str, n) ==
    /\ CountOf(str, "[", n) = CountOf(str, "]", n)
    /\ \A m \in 1..n : CountOf(str, "]", m) <= CountOf(str, "[", m)

BalancedPrefixes(str) == {n \in 1..Len(str) : Balanced(str, n)}

\* C26: for an input that starts with "[", _extract_js_array returns the
\* shortest prefix in which every "[" is closed by a "]" (nested pairs
\* included), and the whole input when no prefix is balanced.
C26_ShortestBalancedPrefix ==
    (pc = "ret" /\ fn_arg # <<>> /\ fn_arg[1] = "[")
    => IF BalancedPrefixes(fn_arg) = {}
       THEN fn_ret[1] = fn_arg
       ELSE \E n \in BalancedPrefixes(fn_arg) :
               /\ \A m \in BalancedPrefixes(fn_arg) : n <= m
               /\ fn_ret[1] = SubSeq(fn_arg, 1, n)

\* A nested array followed by more text has been cut at its closing bracket.
C26_Witness ==
    /\ pc = "ret"
    /\ fn_arg = <<"[", "[", "]", "]", "x">>
    /\ fn_ret[1] = <<"[", "[", "]", "]">>

(***************************************************************************)
(* scrape called again on the same scraper                                 *)
(*                                                                         *)
(* found is self.releases, the list the HTML strategies append to; it is   *)
(* set to [] by __init__ only (line 378).  fn_arg is what the unchanged    *)
(* page answers, fn_ret the results of the calls made so far.              *)
(***************************************************************************)

MaxCalls == 2

\* self.releases after the strategies of _scrape_html ran on a page, from
\* the list acc the scraper held before (lines 1151-1161): the structured
\* or firebase strategy appends, the unstructured one runs when the list
\* is still empty.
HtmlReleasesOnto(acc, self, url, body) ==
    IF _detect_platform(url) \notin DOMAIN PLATFORM_SELECTORS THEN Raise("KeyError")
    ELSE IF _detect_platform(url) = "antigravity" THEN Raise("AttributeError")
    ELSE Ok(OrElse(acc \o (IF _detect_platform(url) = "firebase"
                           THEN _parse_firebase_releases(body.nodes, _detect_platform(url))
                           ELSE _parse_structured_releases(body.nodes, _detect_platform(url))),
                   _parse_unstructured_releases(body.nodes, _detect_platform(url),
                                                self.cutoff_date)))

\* _scrape_html on a scraper that holds acc.
ScrapeHtmlOnto(acc, self, url, resp) ==
    TryExcept(AndThen(Fetch(resp),
                      FilteredOutcome(HtmlReleasesOnto(acc, self, url, resp.body), self)),
              <<"RequestException", "Exception">>)

RescrapeScrapers ==
    {__init__(u, o.months, o.days, o.start_date, None, c, None) :
        u \in {U_custom, U_cloud_sdk, U_firebase_ios},
        o \in TimeOptions,
        c \in {None, Some({"security"})}}

InitRescrape ==
    /\ scraper \in RescrapeScrapers
    /\ fn_arg \in HtmlResponses(scraper, FALSE)
    /\ fn_ret = <<>>
    /\ pc = "call"
    /\ args = <<>>
    /\ urls = <<>>
    /\ idx = 0
    /\ all_releases = <<>>
    /\ reqs = <<>>
    /\ found = <<>>
    /\ result = <<>>
    /\ driver = "none"

\* One more call of scrape (lines 576-623) on the scraper: the URL is no feed
\* and no blog, so the call is _scrape_html(self.url).
ScrapeAgain ==
    /\ pc = "call"
    /\ idx < MaxCalls
    /\ ~scraper.is_xml_feed
    /\ ~_is_antigravity_url(scraper.url)
    /\ scraper.platform \notin {"cloud_blog", "developers_blog", "medium_blog"}
    /\ idx' = idx + 1
    /\ reqs' = Append(reqs, Req("primary", scraper.url, fn_arg))
    /\ scraper' = IF Fetch(fn_arg).exc = "none"
                  THEN [scraper EXCEPT !.used_fallback = TRUE,
                                       !.platform = _detect_platform(scraper.url)]
                  ELSE scraper
    /\ found' = IF Fetch(fn_arg).exc = "none"
                   /\ HtmlReleasesOnto(found, scraper, scraper.url, fn_arg.body).exc = "none"
                THEN HtmlReleasesOnto(found, scraper, scraper.url, fn_arg.body).val
                ELSE found
    /\ result' = ScrapeHtmlOnto(found, scraper, scraper.url, fn_arg).val
    /\ fn_ret' = Append(fn_ret, ScrapeHtmlOnto(found, scraper, scraper.url, fn_arg).val)
    /\ UNCHANGED <<fn_arg, args, urls, all_releases, pc, driver>>

SpecRescrape == InitRescrape /\ [][ScrapeAgain]_vars

\* C27 as stated: a second call of scrape on the same scraper, against the
\* same page, returns the groups the first call returned.
C27_AsStated == Len(fn_ret) >= 2 => fn_ret[2] = fn_ret[1]

\* What holds: the second result starts with the first one.
C27_SecondStartsWithFirst ==
    Len(fn_ret) >= 2
    => /\ Len(fn_ret[2]) >= Len(fn_ret[1])
       /\ SubSeq(fn_ret[2], 1, Len(fn_ret[1])) = fn_ret[1]

(***************************************************************************)
(* C28: the window of a day count.                                         *)
(***************************************************************************)

\* C28 as stated: with a day count d >= 0 and no start date, cutoff_date is
\* midnight at the start of the day d days before now, d = 0 included.
C28_AsStated ==
    (pc = "scrape" /\ ~IsNone(args.days) /\ IsNone(args.start_date))
    => scraper.cutoff_date = midnight(Now - timedelta_days(Val(args.days)))

\* What holds: the rule for d >= 1; a day count of 0 gives the window of
\* 12 months.
C28_PositiveDays ==
    (pc = "scrape" /\ IsNone(args.start_date))
    => /\ Truthy(args.days)
          => scraper.cutoff_date = midnight(Now - timedelta_days(Val(args.days)))
       /\ (~IsNone(args.days) /\ Val(args.days) = 0)
          => scraper.cutoff_date = midnight(Now - timedelta_days(DefaultMonths * DaysPerMonth))

(***************************************************************************)
(* C29: used_fallback.                                                     *)
(***************************************************************************)

FallbackFetched ==
    \E k \in 1..Len(reqs) : reqs[k].role = "fallback" /\ ~RespFailed(reqs[k].resp)

\* C29 as stated: after scrape returns, used_fallback is true exactly when
\* the fallback URL was fetched in place of a failed primary; it is false
\* when the primary was fetched, as a feed or as an HTML page.
C29_AsStated == pc = "returned" => (scraper.used_fallback <=> FallbackFetched)

\* What holds: used_fallback is true exactly when _scrape_html fetched its
\* page, as the fallback or as the primary.
C29_TrueAfterHtmlFetch ==
    pc = "returned"
    => (scraper.used_fallback <=> (HtmlScraped /\ ~RespFailed(reqs[Len(reqs)].resp)))

(***************************************************************************)
(* C30: the platforms _scrape_html is reached with.                        *)
(***************************************************************************)

\* The k-th request of the call was made by _scrape_html: for the fallback
\* page, or for the primary URL at the end of the dispatch of scrape.
HtmlCallAt(k) ==
    \/ reqs[k].role = "fallback"
    \/ /\ reqs[k].role = "primary"
       /\ ~scraper.is_xml_feed
       /\ ~_is_antigravity_url(scraper.url)
       /\ _detect_platform(scraper.url) \notin {"cloud_blog", "developers_blog", "medium_blog"}

\* C30: whenever scrape reaches _scrape_html, for the primary URL or for the
\* fallback page, the platform detected for the fetched URL has a profile in
\* PLATFORM_SELECTORS, and the strategies run on the fetched page without a
\* missing-profile or missing-method error.
C30_ProfileAndRoutine ==
    \A k \in 1..Len(reqs) :
        HtmlCallAt(k)
        => /\ _detect_platform(reqs[k].url) \in DOMAIN PLATFORM_SELECTORS
           /\ ~RespFailed(reqs[k].resp)
              => HtmlReleases(scraper, reqs[k].url, reqs[k].resp.body).exc = "none"

\* The feed of a service answered 404 and its fallback page was fetched and
\* read with the profile of its own platform.
C30_Witness ==
    /\ pc = "returned"
    /\ Len(reqs) = 2
    /\ HtmlCallAt(2)
    /\ reqs[2].url = U_api_gateway_fb
    /\ ~RespFailed(reqs[2].resp)
    /\ scraper.platform = "google_cloud"
    /\ result # <<>>

====
